---- MODULE Spec2Model ----
(***************************************************************************)
(* Model of System::Cache::PageCacheClass (Libs/PageCacheClass.hpp): a     *)
(* one-page RAM write cache in front of a page-addressed backing store.    *)
(* The backing store (the pure virtual Read/Write) is a byte array whose   *)
(* operations may fail.                                                    *)
(* Second part: System::PersistentStorage (Libs/PersistentStorage.hpp):    *)
(* the single-region reader and writer and the page storage class, over a  *)
(* device that is a byte array (their pure virtual Compare, Read, Write,   *)
(* WritePage and CalculateCRC).                                            *)
(***************************************************************************)
EXTENDS Integers, Sequences, FiniteSets, TLC

\* template parameter PAGE_SIZE (a power of two: the code masks with PAGE_SIZE-1)
PAGE_SIZE == 2
\* number of pages of the backing store
NumPages == 2
\* byte values are 0..MaxByte
MaxByte == 1
\* a call's backing operation number 1..MaxFail may be the one that fails
MaxFail == 2
\* number of public calls in one run
MaxCalls == 2

MemSize == NumPages * PAGE_SIZE
Bytes == 0..MaxByte
Offsets == 0..(PAGE_SIZE - 1)
Addresses == 0..(MemSize - 1)

VARIABLES
    m_Status,   \* StatusEnum: "Empty", "HasData", "Dirty"
    m_Address,  \* start address of the cache buffer
    m_Buffer,   \* cache buffer: Offsets -> Bytes
    mem,        \* backing store content: Addresses -> Bytes
    pre,        \* the fields and the store when the last call was made
    calls,      \* number of public calls made so far
    pc,         \* caller position: "idle", or "returned" right after a call
    call,       \* the call that returned: [op, address, len, data, cb]
    ret,        \* its return value
    out,        \* bytes GetData stored into the caller's buffer
    log,        \* backing Read/Write calls and hook calls it made, in order
    device,         \* content of the storage device: the byte at address a is device[a + 1]
    width,          \* sizeof(ADDRESS_TYPE) of the single-region instantiation
    reader_Address, \* StorageReaderClass::m_Address
    page_Address,   \* PageStorageClass::m_Address
    spre,           \* device and the two addresses when the last call was made
    timers,         \* the timers states table: TimerStateStruct of each timer
    SystemTime,     \* volatile uint32_t SystemTime, mS
    services,       \* the services states table: IServiceStateStruct of each service
    usb             \* the UsbBase object: its fields

cacheVars == <<m_Status, m_Address, m_Buffer, mem, pre>>
storageVars == <<device, width, reader_Address, page_Address, spre>>
timerVars == <<timers, SystemTime>>
serviceVars == <<services>>
usbVars == <<usb>>
vars == <<m_Status, m_Address, m_Buffer, mem, pre, calls, pc, call, ret, out, log,
          device, width, reader_Address, page_Address, spre,
          timers, SystemTime, services, usb>>

----------------------------------------------------------------------------
\* address & ~((ADDRESS_TYPE)PAGE_SIZE-1)
PageStart(address) == address - (address % PAGE_SIZE)

Min(a, b) == IF a < b THEN a ELSE b

\* the bytes s[from+1 .. from+n] of a sequence
Slice(s, from, n) == [i \in 1..n |-> s[from + i]]

\* the buffer bytes [from, from+n) as a sequence
BufBytes(buf, from, n) == [i \in 1..n |-> buf[from + i - 1]]

\* the backing store bytes [address, address+n) as a sequence
MemBytes(m, address, n) == [i \in 1..n |-> m[address + i - 1]]

\* memcpy(&buf[at], data, n)
CopyIn(buf, at, data, n) ==
    [o \in Offsets |-> IF o >= at /\ o < at + n THEN data[o - at + 1] ELSE buf[o]]

\* the object's fields and the backing store
Snapshot == [status |-> m_Status, addr |-> m_Address, buf |-> m_Buffer, mem |-> mem]

\* Execution context of one public call: the object's fields, the backing
\* store, the number of backing operations issued so far and the events.
Ctx(failAt) ==
    [status |-> m_Status, addr |-> m_Address, buf |-> m_Buffer, mem |-> mem,
     n |-> 0, failAt |-> failAt, log |-> <<>>, out |-> <<>>, ok |-> TRUE]

\* One backing call or hook call: src names the pointer passed as buffer
\* ("m_Buffer" or the caller's "data"), status is m_Status when it is made
Event(c, op, src, address, len, data, ok) ==
    [op |-> op, src |-> src, address |-> address, len |-> len, data |-> data,
     ok |-> ok, status |-> c.status]

\* virtual bool Write(buffer, address, len): stores len bytes at address,
\* or fails leaving the store as it was
Write(c, src, data, address, len) ==
    IF c.n + 1 = c.failAt
    THEN [c EXCEPT !.n = c.n + 1, !.ok = FALSE,
                   !.log = Append(c.log, Event(c, "Write", src, address, len, data, FALSE))]
    ELSE [c EXCEPT !.n = c.n + 1, !.ok = TRUE,
                   !.mem = [a \in Addresses |->
                              IF a >= address /\ a < address + len
                              THEN data[a - address + 1] ELSE c.mem[a]],
                   !.log = Append(c.log, Event(c, "Write", src, address, len, data, TRUE))]

\* virtual bool Read(buffer, address, len) with buffer = &m_Buffer[at]
ReadToBuffer(c, at, address, len) ==
    IF c.n + 1 = c.failAt
    THEN [c EXCEPT !.n = c.n + 1, !.ok = FALSE,
                   !.log = Append(c.log, Event(c, "Read", "m_Buffer", address, len, <<>>, FALSE))]
    ELSE [c EXCEPT !.n = c.n + 1, !.ok = TRUE,
                   !.buf = CopyIn(c.buf, at, MemBytes(c.mem, address, len), len),
                   !.log = Append(c.log, Event(c, "Read", "m_Buffer", address, len,
                                               MemBytes(c.mem, address, len), TRUE))]

\* virtual bool Read(buffer, address, len) with buffer = the caller's data
ReadToCaller(c, address, len) ==
    IF c.n + 1 = c.failAt
    THEN [c EXCEPT !.n = c.n + 1, !.ok = FALSE,
                   !.log = Append(c.log, Event(c, "Read", "data", address, len, <<>>, FALSE))]
    ELSE [c EXCEPT !.n = c.n + 1, !.ok = TRUE,
                   !.out = c.out \o MemBytes(c.mem, address, len),
                   !.log = Append(c.log, Event(c, "Read", "data", address, len,
                                               MemBytes(c.mem, address, len), TRUE))]

\* isInCache that forgets to test m_Status
isInCache_NoStatus(c, address) == c.addr = PageStart(address)

\* isInCache(address)
isInCache(c, address) == c.status # "Empty" /\ c.addr = PageStart(address)

\* Clear()
ClearCtx(c) == [c EXCEPT !.status = "Empty"]

\* callback->Callback(m_Buffer, m_Address, sizeof(m_Buffer), callback->arg):
\* the callback type declares (const void *buffer, len, address, arg), so its
\* len parameter receives m_Address and its address parameter
\* sizeof(m_Buffer); the buffer is passed as const and is left as it is
CallHook(c) ==
    [c EXCEPT !.log = Append(c.log,
        Event(c, "Hook", "m_Buffer", PAGE_SIZE, c.addr, BufBytes(c.buf, 0, PAGE_SIZE), TRUE))]

\* Flush that calls the hook after the Write
FlushCtx_HookAfter(c, cb) ==
    IF c.status = "Dirty"
    THEN LET w == Write(c, "m_Buffer", BufBytes(c.buf, 0, PAGE_SIZE), c.addr, PAGE_SIZE)
             h == IF cb THEN CallHook(w) ELSE w
         IN  IF ~h.ok THEN h ELSE ClearCtx(h)
    ELSE [c EXCEPT !.ok = TRUE]

\* Flush that clears the slot whatever the Write returned
FlushCtx_ClearAlways(c, cb) ==
    IF c.status = "Dirty"
    THEN LET h == IF cb THEN CallHook(c) ELSE c
             w == Write(h, "m_Buffer", BufBytes(h.buf, 0, PAGE_SIZE), h.addr, PAGE_SIZE)
         IN  ClearCtx(w)
    ELSE [c EXCEPT !.ok = TRUE]

\* Flush that does not test m_Status
FlushCtx_Always(c, cb) ==
    LET h == IF cb THEN CallHook(c) ELSE c
        w == Write(h, "m_Buffer", BufBytes(h.buf, 0, PAGE_SIZE), h.addr, PAGE_SIZE)
    IN  IF ~w.ok THEN w ELSE ClearCtx(w)

\* Flush that keeps the written page as clean data (HasData) instead of Clear()
FlushCtx_HasData(c, cb) ==
    IF c.status = "Dirty"
    THEN LET h == IF cb THEN CallHook(c) ELSE c
             w == Write(h, "m_Buffer", BufBytes(h.buf, 0, PAGE_SIZE), h.addr, PAGE_SIZE)
         IN  IF ~w.ok THEN w ELSE [w EXCEPT !.status = "HasData"]
    ELSE [c EXCEPT !.ok = TRUE]

\* Flush(callback)
FlushCtx(c, cb) ==
    IF c.status = "Dirty"
    THEN LET h == IF cb THEN CallHook(c) ELSE c
             w == Write(h, "m_Buffer", BufBytes(h.buf, 0, PAGE_SIZE), h.addr, PAGE_SIZE)
         IN  IF ~w.ok THEN w ELSE ClearCtx(w)
    ELSE [c EXCEPT !.ok = TRUE]

\* setAddress that ignores the result of Flush
setAddress_IgnoreFailure(c, address, cb) ==
    LET f == IF c.status = "Dirty" /\ ~isInCache(c, address)
             THEN FlushCtx(c, cb) ELSE c
    IN  [f EXCEPT !.addr = PageStart(address), !.ok = TRUE]

\* setAddress that drops a Dirty page of another address instead of flushing it
setAddress_DropDirty(c, address, cb) ==
    LET f == IF c.status = "Dirty" /\ ~isInCache(c, address)
             THEN ClearCtx([c EXCEPT !.ok = TRUE]) ELSE [c EXCEPT !.ok = TRUE]
    IN  [f EXCEPT !.addr = PageStart(address)]

\* setAddress that stores the address without masking it to the page start
setAddress_Unaligned(c, address, cb) ==
    LET f == IF c.status = "Dirty" /\ ~isInCache(c, address)
             THEN FlushCtx(c, cb) ELSE [c EXCEPT !.ok = TRUE]
    IN  IF ~f.ok THEN f ELSE [f EXCEPT !.addr = address]

\* setAddress(address, callback)
setAddress(c, address, cb) ==
    LET f == IF c.status = "Dirty" /\ ~isInCache(c, address)
             THEN FlushCtx(c, cb) ELSE [c EXCEPT !.ok = TRUE]
    IN  IF ~f.ok THEN f ELSE [f EXCEPT !.addr = PageStart(address)]

\* if data start address is not aligned by page border, then read the
\* unaligned data piece at the beginning of page
PrefixFill(s, address) ==
    IF s.ok /\ s.status = "Empty" /\ s.addr # address
    THEN ReadToBuffer(s, 0, s.addr, address % PAGE_SIZE)
    ELSE s

\* copy the rest page data to buffer
Merge(p, data, address, len) ==
    LET restPageSize == PAGE_SIZE - (address % PAGE_SIZE)
        pageDataLen == Min(restPageSize, len)
    IN  IF ~p.ok THEN p
        ELSE [p EXCEPT !.buf = CopyIn(p.buf, address % PAGE_SIZE, data, pageDataLen)]

\* if data piece is not aligned by page border, then read the unaligned data
\* piece at the ending of page
SuffixFill(m, address, len) ==
    LET restPageSize == PAGE_SIZE - (address % PAGE_SIZE)
        pageDataLen == Min(restPageSize, len)
    IN  IF m.ok /\ m.status = "Empty" /\ restPageSize > pageDataLen
        THEN ReadToBuffer(m, (address % PAGE_SIZE) + pageDataLen,
                          m.addr + (address % PAGE_SIZE) + pageDataLen,
                          restPageSize - pageDataLen)
        ELSE m

\* m_Status = StatusEnum::Dirty
MarkDirty(e) == IF e.ok THEN [e EXCEPT !.status = "Dirty"] ELSE e

\* the buffer branch without the read of the page's ending
SetDataViaBuffer_NoSuffix(c, data, address, len, cb) ==
    MarkDirty(Merge(PrefixFill(setAddress(c, address, cb), address), data, address, len))

\* the buffer branch as a write-through cache: the page is written at once
SetDataViaBuffer_WriteThrough(c, data, address, len, cb) ==
    LET e == MarkDirty(SuffixFill(Merge(PrefixFill(setAddress(c, address, cb), address),
                                        data, address, len), address, len))
    IN  IF e.ok THEN Write(e, "m_Buffer", BufBytes(e.buf, 0, PAGE_SIZE), e.addr, PAGE_SIZE)
        ELSE e

\* the else branch of SetData's loop body: the request goes through the
\* buffer; each step passes a failed context on unchanged (return false)
SetDataViaBuffer(c, data, address, len, cb) ==
    MarkDirty(SuffixFill(Merge(PrefixFill(setAddress(c, address, cb), address),
                               data, address, len), address, len))

\* SetData without the whole-page branch: every piece goes through the buffer
RECURSIVE SetDataLoop_NoBypass(_, _, _, _, _)
SetDataLoop_NoBypass(c, data, address, len, cb) ==
    LET used == Min(PAGE_SIZE - (address % PAGE_SIZE), len)
        r == SetDataViaBuffer(c, data, address, len, cb)
    IN  IF ~r.ok THEN r
        ELSE IF len - used > 0
             THEN SetDataLoop_NoBypass(r, Slice(data, used, len - used), address + used,
                                       len - used, cb)
             ELSE r

\* SetData(data, address, len, callback): the do-while loop
RECURSIVE SetDataLoop(_, _, _, _, _)
SetDataLoop(c, data, address, len, cb) ==
    LET whole == (address % PAGE_SIZE) = 0 /\ len >= PAGE_SIZE
        used == IF whole THEN PAGE_SIZE ELSE Min(PAGE_SIZE - (address % PAGE_SIZE), len)
        r == IF whole
             THEN Write(c, "data", Slice(data, 0, PAGE_SIZE), address, PAGE_SIZE)
             ELSE SetDataViaBuffer(c, data, address, len, cb)
    IN  IF ~r.ok THEN r
        ELSE IF len - used > 0
             THEN SetDataLoop(r, Slice(data, used, len - used), address + used, len - used, cb)
             ELSE r

\* GetData that drops the resident page when it reads another page
RECURSIVE GetDataLoop_Evicting(_, _, _)
GetDataLoop_Evicting(c, address, len) ==
    LET restPageSize == PAGE_SIZE - (address % PAGE_SIZE)
        pageDataLen == Min(restPageSize, len)
        r == IF isInCache(c, address)
             THEN [c EXCEPT !.ok = TRUE,
                            !.out = c.out \o BufBytes(c.buf, address % PAGE_SIZE, pageDataLen)]
             ELSE ClearCtx(ReadToCaller(c, address, pageDataLen))
    IN  IF ~r.ok THEN r
        ELSE IF len - pageDataLen > 0
             THEN GetDataLoop_Evicting(r, address + pageDataLen, len - pageDataLen)
             ELSE r

\* GetData(data, address, len): the do-while loop
RECURSIVE GetDataLoop(_, _, _)
GetDataLoop(c, address, len) ==
    LET restPageSize == PAGE_SIZE - (address % PAGE_SIZE)
        pageDataLen == Min(restPageSize, len)
        r == IF isInCache(c, address)
             THEN [c EXCEPT !.ok = TRUE,
                            !.out = c.out \o BufBytes(c.buf, address % PAGE_SIZE, pageDataLen)]
             ELSE ReadToCaller(c, address, pageDataLen)
    IN  IF ~r.ok THEN r
        ELSE IF len - pageDataLen > 0
             THEN GetDataLoop(r, address + pageDataLen, len - pageDataLen)
             ELSE r

----------------------------------------------------------------------------
(***************************************************************************)
(* System::PersistentStorage. Unsigned integers are kept as they lie in    *)
(* memory on the Cortex-M: little-endian byte sequences of the width of    *)
(* their type, so that additions wrap and conversions truncate or extend   *)
(* as the C++ types do.                                                    *)
(***************************************************************************)
\* sizeof(System::UUID): uint8_t Bytes[16]
UuidSize == 16
\* sizeof(unsigned int)
UIntSize == 4
\* sizeof(CRC_TYPE) of the instantiation
CrcSize == 1
\* sizeof(LENGTH_TYPE) of the PageStorageClass instantiation
LengthSize == 2
\* sizeof(ADDRESS_TYPE) of the single-region instantiations
AddressSizes == {2, 4, 8}

\* number of bytes of the storage device
DeviceSize == 96
\* longest payload a caller stores
MaxLen == 2

\* the device is the sequence of its bytes: the byte at address a is dev[a + 1]
DeviceIndexes == 1..DeviceSize

Max(a, b) == IF a > b THEN a ELSE b

\* the little-endian bytes of v in an unsigned type of n bytes
RECURSIVE ToBytes(_, _)
ToBytes(v, n) == IF n = 0 THEN <<>> ELSE <<v % 256>> \o ToBytes(v \div 256, n - 1)

\* conversion of an unsigned value to an unsigned type of n bytes
Resize(b, n) == [i \in 1..n |-> IF i <= Len(b) THEN b[i] ELSE 0]

\* a + b in an unsigned type of Len(a) = Len(b) bytes: carry from byte i
RECURSIVE Carry(_, _, _)
Carry(a, b, i) == IF i = 0 THEN 0 ELSE (a[i] + b[i] + Carry(a, b, i - 1)) \div 256

AddUnsigned(a, b) == [i \in 1..Len(a) |-> (a[i] + b[i] + Carry(a, b, i - 1)) % 256]

\* a > b for two unsigned values of the same width
Greater(a, b) ==
    \E i \in 1..Len(a) : a[i] > b[i] /\ \A j \in (i + 1)..Len(a) : a[j] = b[j]

\* a value larger than every device address, standing for every value that
\* does not fit three bytes
Huge == 256 * 256 * 256

\* the value of an unsigned byte sequence as a number
ToNat(b) ==
    IF \E i \in 4..Len(b) : b[i] # 0 THEN Huge
    ELSE Resize(b, 3)[1] + 256 * Resize(b, 3)[2] + 256 * 256 * Resize(b, 3)[3]

\* static const System::UUID StorageUUID
StorageUUID == <<176, 36, 242, 220, 114, 234, 17, 232, 133, 142, 44, 253, 161, 225, 206, 245>>
\* static const System::UUID PageStorageUUID
PageStorageUUID == <<210, 60, 59, 122, 117, 249, 17, 232, 129, 144, 44, 253, 161, 225, 206, 245>>

\* StorageHeaderStruct<ADDRESS_TYPE, CRC_TYPE>, packed: the offsets of its
\* fields and its size, for sizeof(ADDRESS_TYPE) = w
DataUuidOffset == UuidSize
LengthOffset == UuidSize + UuidSize
StorageCrcOffset(w) == UuidSize + UuidSize + w
StorageHeaderSize(w) == UuidSize + UuidSize + w + CrcSize

\* the device bytes [address, address + n) that exist
DeviceBytes(dev, address, n) ==
    [i \in 1..Min(n, Max(0, DeviceSize - address)) |-> dev[address + i]]

\* the checksum of the device: a position-weighted byte sum in CRC_TYPE
\* (the sum over the positions lo..hi, halved so that the evaluation stays
\* shallow on a long sequence)
RECURSIVE WeightedSumOver(_, _, _)
WeightedSumOver(bytes, lo, hi) ==
    IF lo > hi THEN 0
    ELSE IF lo = hi THEN (lo * bytes[lo] + 1) % 256
    ELSE (WeightedSumOver(bytes, lo, (lo + hi) \div 2)
            + WeightedSumOver(bytes, (lo + hi) \div 2 + 1, hi)) % 256
WeightedSum(bytes, i) == WeightedSumOver(bytes, 1, i)
CrcOf(bytes) == ToBytes(WeightedSum(bytes, Len(bytes)), CrcSize)

\* Execution context of one call on a storage object: the device, the type
\* width, the object's m_Address, the number of device reads and writes
\* issued so far, the events, the caller's buffer, the values read into
\* locals, the CalculatePageCRC calls made (crcs) and the result.
CtxOver(dev, w, address, failAt) ==
    [dev |-> dev, w |-> w, addr |-> address, n |-> 0, failAt |-> failAt,
     log |-> <<>>, out |-> <<>>, ok |-> TRUE, res |-> "none",
     length |-> <<>>, crc |-> <<>>, crcs |-> <<>>,
     TotalLength |-> <<>>, PageOffset |-> <<>>, PageLength |-> <<>>, PageCrc |-> <<>>]

\* the context of a call on the object whose m_Address is address
StorageCtx(address, failAt) == CtxOver(device, width, address, failAt)

DeviceEvent(op, address, len, data, ok) ==
    [op |-> op, address |-> address, len |-> len, data |-> data, ok |-> ok]

\* virtual bool Compare(pattern, address, len): true when the len device
\* bytes at address equal the pattern
Compare(c, pattern, address, len) ==
    /\ address + len <= DeviceSize
    /\ DeviceBytes(c.dev, address, len) = pattern

\* virtual CRC_TYPE CalculateCRC(address, len), len an unsigned int
CalculateCRC(c, address, len) == CrcOf(DeviceBytes(c.dev, address, ToNat(len)))

\* virtual bool Read(data, address, len): stores the len device bytes at
\* address into the local or the caller's buffer named by field, or fails
DeviceRead(c, field, address, len) ==
    IF c.n + 1 = c.failAt \/ address + len > DeviceSize
    THEN [c EXCEPT !.n = c.n + 1, !.ok = FALSE,
                   !.log = Append(c.log, DeviceEvent("Read", address, len, <<>>, FALSE))]
    ELSE [c EXCEPT !.n = c.n + 1, !.ok = TRUE,
                   ![field] = DeviceBytes(c.dev, address, len),
                   !.log = Append(c.log, DeviceEvent("Read", address, len,
                                                     DeviceBytes(c.dev, address, len), TRUE))]

\* virtual bool Write(data, len, address) and WritePage(data, address, len):
\* stores the len bytes of data at address, or fails leaving the device
DeviceWrite(c, data, address, len) ==
    IF ~c.ok THEN c
    ELSE IF c.n + 1 = c.failAt \/ address + len > DeviceSize
    THEN [c EXCEPT !.n = c.n + 1, !.ok = FALSE,
                   !.log = Append(c.log, DeviceEvent("Write", address, len, data, FALSE))]
    ELSE [c EXCEPT !.n = c.n + 1, !.ok = TRUE,
                   !.dev = [i \in DeviceIndexes |->
                              IF i > address /\ i <= address + len
                              THEN data[i - address] ELSE c.dev[i]],
                   !.log = Append(c.log, DeviceEvent("Write", address, len, data, TRUE))]

\* getLength(address, length): Read(&length, address + offsetof(Length), sizeof(length))
getLength(c, address) == DeviceRead(c, "length", address + LengthOffset, c.w)

\* getCrc(address, crc): Read(&crc, address + offsetof(StorageCrc), sizeof(crc))
getCrc(c, address) ==
    IF ~c.ok THEN c ELSE DeviceRead(c, "crc", address + StorageCrcOffset(c.w), CrcSize)

\* the checksum test that makes the address active whatever it finds
CheckStorageCrc_SetsAddress(c, address) ==
    IF ~c.ok THEN [c EXCEPT !.res = "DeviceError"]
    ELSE IF c.crc = CalculateCRC(c, address + StorageHeaderSize(c.w), Resize(c.length, UIntSize))
    THEN [c EXCEPT !.addr = address, !.res = "Ok"]
    ELSE [c EXCEPT !.addr = address, !.res = "StorageError"]

\* IsStorageCorrect after the two identifiers matched: DeviceError when
\* getLength or getCrc failed, else crc == CalculateCRC(address +
\* sizeof(header), len), with len converted to the unsigned int parameter
CheckStorageCrc(c, address) ==
    IF ~c.ok THEN [c EXCEPT !.res = "DeviceError"]
    ELSE IF c.crc = CalculateCRC(c, address + StorageHeaderSize(c.w), Resize(c.length, UIntSize))
    THEN [c EXCEPT !.addr = address, !.res = "Ok"]
    ELSE [c EXCEPT !.res = "StorageError"]

\* StorageReaderClass::IsStorageCorrect(address, uuid)
IsStorageCorrectCtx(c, address, uuid) ==
    IF ~Compare(c, StorageUUID, address, UuidSize)
    THEN [c EXCEPT !.res = "NoStorage"]
    ELSE IF ~Compare(c, uuid, address + DataUuidOffset, UuidSize)
    THEN [c EXCEPT !.res = "AnotherStorage"]
    ELSE CheckStorageCrc(getCrc(getLength(c, address), address), address)

\* GetData after getLength: len + offset is an unsigned int sum; it is
\* compared with dataLength in the wider of unsigned int and ADDRESS_TYPE;
\* then Read(data, m_Address, len + offset)
BoundCheckedRead(c, len, offset) ==
    IF ~c.ok THEN c
    ELSE IF Greater(Resize(AddUnsigned(len, offset), Max(UIntSize, c.w)),
                    Resize(c.length, Max(UIntSize, c.w)))
    THEN [c EXCEPT !.ok = FALSE]
    ELSE DeviceRead(c, "out", c.addr, ToNat(AddUnsigned(len, offset)))

\* StorageReaderClass::GetData(data, len, offset)
ReaderGetDataCtx(c, len, offset) == BoundCheckedRead(getLength(c, c.addr), len, offset)

\* SetData that writes the Crc field before the Length field
WriterSetDataCtx_CrcFirst(c, uuid, data, len, crc) ==
    DeviceWrite(
      DeviceWrite(
        DeviceWrite(
          DeviceWrite(
            DeviceWrite(c, StorageUUID, c.addr, UuidSize),
            uuid, c.addr + DataUuidOffset, UuidSize),
          crc, c.addr + StorageCrcOffset(c.w), CrcSize),
        len, c.addr + LengthOffset, UIntSize),
      data, c.addr + StorageHeaderSize(c.w), ToNat(len))

\* StorageWriterClass::SetData(data, len, crc) of the writer constructed with
\* (c.addr, uuid): five writes, the first that fails ends the call; the
\* Length field is written from the unsigned int len with sizeof(len) bytes
WriterSetDataCtx(c, uuid, data, len, crc) ==
    DeviceWrite(
      DeviceWrite(
        DeviceWrite(
          DeviceWrite(
            DeviceWrite(c, StorageUUID, c.addr, UuidSize),
            uuid, c.addr + DataUuidOffset, UuidSize),
          len, c.addr + LengthOffset, UIntSize),
        crc, c.addr + StorageCrcOffset(c.w), CrcSize),
      data, c.addr + StorageHeaderSize(c.w), ToNat(len))

\* PageHeaderStruct, packed: the offsets of its fields and its size
TotalLengthOffset == UuidSize + UuidSize
PageOffsetOffset == UuidSize + UuidSize + LengthSize
PageLengthOffset == UuidSize + UuidSize + 2 * LengthSize
PageCrcOffset == UuidSize + UuidSize + 3 * LengthSize
PageHeaderSize == UuidSize + UuidSize + 3 * LengthSize + CrcSize

\* one Read of getMetrics; a failed Read ends getMetrics
MetricRead(c, field, address, len) ==
    IF ~c.ok THEN c ELSE DeviceRead(c, field, address, len)

\* PageStorageClass::getMetrics(metrics, address)
getMetrics(c, address) ==
    MetricRead(
      MetricRead(
        MetricRead(
          MetricRead(c, "TotalLength", address + TotalLengthOffset, LengthSize),
          "PageOffset", address + PageOffsetOffset, LengthSize),
        "PageLength", address + PageLengthOffset, LengthSize),
      "PageCrc", address + PageCrcOffset, CrcSize)

\* SetHeader that goes on with the next field after a failed write
SetHeaderCtx_GoesOn(c, uuid, metrics) ==
    DeviceWrite(
      [DeviceWrite(
        [DeviceWrite(
          [DeviceWrite(
            [DeviceWrite(
              [DeviceWrite(c, PageStorageUUID, c.addr, UuidSize) EXCEPT !.ok = TRUE],
              uuid, c.addr + DataUuidOffset, UuidSize) EXCEPT !.ok = TRUE],
            metrics.TotalLength, c.addr + TotalLengthOffset, LengthSize) EXCEPT !.ok = TRUE],
          metrics.PageOffset, c.addr + PageOffsetOffset, LengthSize) EXCEPT !.ok = TRUE],
        metrics.PageLength, c.addr + PageLengthOffset, LengthSize) EXCEPT !.ok = TRUE],
      metrics.PageCrc, c.addr + PageCrcOffset, CrcSize)

\* SetHeader that stores PageOffset and PageLength in each other's field
SetHeaderCtx_Swapped(c, uuid, metrics) ==
    DeviceWrite(
      DeviceWrite(
        DeviceWrite(
          DeviceWrite(
            DeviceWrite(
              DeviceWrite(c, PageStorageUUID, c.addr, UuidSize),
              uuid, c.addr + DataUuidOffset, UuidSize),
            metrics.TotalLength, c.addr + TotalLengthOffset, LengthSize),
          metrics.PageOffset, c.addr + PageLengthOffset, LengthSize),
        metrics.PageLength, c.addr + PageOffsetOffset, LengthSize),
      metrics.PageCrc, c.addr + PageCrcOffset, CrcSize)

\* PageStorageClass::SetHeader(metrics) of the object constructed with uuid:
\* six writes at m_Address, the first that fails ends the call
SetHeaderCtx(c, uuid, metrics) ==
    DeviceWrite(
      DeviceWrite(
        DeviceWrite(
          DeviceWrite(
            DeviceWrite(
              DeviceWrite(c, PageStorageUUID, c.addr, UuidSize),
              uuid, c.addr + DataUuidOffset, UuidSize),
            metrics.TotalLength, c.addr + TotalLengthOffset, LengthSize),
          metrics.PageOffset, c.addr + PageOffsetOffset, LengthSize),
        metrics.PageLength, c.addr + PageLengthOffset, LengthSize),
      metrics.PageCrc, c.addr + PageCrcOffset, CrcSize)

\* getMaxPageLength(pageLen): pageLen - sizeof(PageHeaderStruct), returned as
\* LENGTH_TYPE (a difference below zero wraps)
getMaxPageLength(pageLen) == ToNat(ToBytes(ToNat(pageLen) - PageHeaderSize, LengthSize))

\* virtual CRC_TYPE CalculatePageCRC(address, len), len a LENGTH_TYPE
CalculatePageCRC(c, address, len) == CrcOf(DeviceBytes(c.dev, address, ToNat(len)))

\* metrics.PageCrc != CalculatePageCRC(address + sizeof(PageHeaderStruct),
\* metrics.PageLength), evaluated when DontCheckCrc is false: the call of
\* CalculatePageCRC is recorded
CheckPageCrc(c, address) ==
    IF c.PageCrc # CalculatePageCRC(c, address + PageHeaderSize, c.PageLength)
    THEN [c EXCEPT !.crcs = Append(c.crcs, <<address + PageHeaderSize, c.PageLength>>),
                   !.res = "Error"]
    ELSE [c EXCEPT !.crcs = Append(c.crcs, <<address + PageHeaderSize, c.PageLength>>),
                   !.addr = address, !.res = "Ok"]

\* the metrics check that compares the checksum only when the caller asks
\* for it: DontCheckCrc taken as its opposite
CheckMetrics_CrcOnRequest(c, address, pageLen, options) ==
    IF ~c.ok THEN [c EXCEPT !.res = "DeviceError"]
    ELSE IF \/ ToNat(c.PageLength) > getMaxPageLength(pageLen)
            \/ ToNat(c.PageLength) > ToNat(c.TotalLength)
            \/ ToNat(c.PageOffset) > ToNat(c.TotalLength)
    THEN [c EXCEPT !.res = "Error"]
    ELSE IF /\ options.DontCheckCrc
            /\ c.PageCrc # CalculatePageCRC(c, address + PageHeaderSize, c.PageLength)
    THEN [c EXCEPT !.res = "Error"]
    ELSE [c EXCEPT !.addr = address, !.res = "Ok"]

\* the metrics check that makes the address active before it tests the sizes
CheckMetrics_SetsAddress(c, address, pageLen, options) ==
    IF ~c.ok THEN [c EXCEPT !.res = "DeviceError"]
    ELSE IF \/ ToNat(c.PageLength) > getMaxPageLength(pageLen)
            \/ ToNat(c.PageLength) > ToNat(c.TotalLength)
            \/ ToNat(c.PageOffset) > ToNat(c.TotalLength)
    THEN [c EXCEPT !.addr = address, !.res = "Error"]
    ELSE IF /\ ~options.DontCheckCrc
            /\ c.PageCrc # CalculatePageCRC(c, address + PageHeaderSize, c.PageLength)
    THEN [c EXCEPT !.addr = address, !.res = "Error"]
    ELSE [c EXCEPT !.addr = address, !.res = "Ok"]

\* the metrics check without the test of PageOffset against TotalLength
CheckMetrics_NoOffset(c, address, pageLen, options) ==
    IF ~c.ok THEN [c EXCEPT !.res = "DeviceError"]
    ELSE IF \/ ToNat(c.PageLength) > getMaxPageLength(pageLen)
            \/ ToNat(c.PageLength) > ToNat(c.TotalLength)
    THEN [c EXCEPT !.res = "Error"]
    ELSE IF /\ ~options.DontCheckCrc
            /\ c.PageCrc # CalculatePageCRC(c, address + PageHeaderSize, c.PageLength)
    THEN [c EXCEPT !.res = "Error"]
    ELSE [c EXCEPT !.addr = address, !.res = "Ok"]

\* isPageCorrect inside if(!options.DontCheckMetrics), after getMetrics
CheckMetrics(c, address, pageLen, options) ==
    IF ~c.ok THEN [c EXCEPT !.res = "DeviceError"]
    ELSE IF \/ ToNat(c.PageLength) > getMaxPageLength(pageLen)
            \/ ToNat(c.PageLength) > ToNat(c.TotalLength)
            \/ ToNat(c.PageOffset) > ToNat(c.TotalLength)
    THEN [c EXCEPT !.res = "Error"]
    ELSE IF ~options.DontCheckCrc
    THEN CheckPageCrc(c, address)
    ELSE [c EXCEPT !.addr = address, !.res = "Ok"]

\* isPageCorrect that reads the metrics whatever the options are and uses
\* them only when DontCheckMetrics is false
isPageCorrectCtx_ReadsMetrics(c, uuid, address, pageLen, options) ==
    IF ~Compare(c, PageStorageUUID, address, UuidSize)
    THEN [c EXCEPT !.res = "NoStorage"]
    ELSE IF ~Compare(c, uuid, address + DataUuidOffset, UuidSize)
    THEN [c EXCEPT !.res = "AnotherStorage"]
    ELSE IF ~options.DontCheckMetrics
    THEN CheckMetrics(getMetrics(c, address), address, pageLen, options)
    ELSE [getMetrics(c, address) EXCEPT !.addr = address, !.res = "Ok"]

\* PageStorageClass::isPageCorrect(address, pageLen, options) of the object
\* constructed with uuid
isPageCorrectCtx(c, uuid, address, pageLen, options) ==
    IF ~Compare(c, PageStorageUUID, address, UuidSize)
    THEN [c EXCEPT !.res = "NoStorage"]
    ELSE IF ~Compare(c, uuid, address + DataUuidOffset, UuidSize)
    THEN [c EXCEPT !.res = "AnotherStorage"]
    ELSE IF ~options.DontCheckMetrics
    THEN CheckMetrics(getMetrics(c, address), address, pageLen, options)
    ELSE [c EXCEPT !.addr = address, !.res = "Ok"]

----------------------------------------------------------------------------
\* Data identities of the callers: they differ in their last byte only
UuidA == [i \in 1..UuidSize |-> i]
UuidB == [i \in 1..UuidSize |-> IF i = UuidSize THEN 0 ELSE i]
Uuids == {UuidA, UuidB}

\* the addresses of the regions and pages on the device
Bases == {0, DeviceSize \div 2}

\* the writer object of the program: StorageWriterClass(0, UuidA)
WriterAddress == 0
WriterUuid == UuidA
\* the page object of the program: PageStorageClass(UuidA, address)
PageUuid == UuidA

\* the payload of len bytes a caller stores
StoragePayload(len) == [i \in 1..len |-> 16 * i + len]

\* unsigned int arguments: the small values and UINT_MAX
UIntMax == [i \in 1..UIntSize |-> 255]
SmallUInts == { ToBytes(v, UIntSize) : v \in 0..(MaxLen + 1) }

\* an erased FLASH device
Erased == [i \in DeviceIndexes |-> 255]

StorageSnapshot == [dev |-> device, reader |-> reader_Address, page |-> page_Address]

\* the storage objects while the program uses only the cache
StorageAtRest ==
    /\ device = Erased
    /\ width = UIntSize
    /\ reader_Address = 0
    /\ page_Address = 0
    /\ spre = StorageSnapshot


----------------------------------------------------------------------------
(***************************************************************************)
(* Timer (Services/Timer.cpp, Timer.h): the timers states table and the    *)
(* system time, a 32-bit millisecond counter kept as its four bytes.       *)
(***************************************************************************)
\* number of timers the program declares with TIMER_DECLARE
NumTimers == 2
TimerIds == 1..NumTimers
\* the clock runs from two ticks before it wraps to MaxTime ticks after
MaxTime == 2

\* a TimerStateStruct* argument: NULL is 0, TIMER_STATE(name) is the
\* number of the timer in the table
NullState == 0

\* Timer::Init(): memset of the states table to 0
ZeroTime == ToBytes(0, UIntSize)
StoppedTimer == [Interval |-> ZeroTime, TimeStamp |-> ZeroTime, Enabled |-> FALSE]
TimersAtRest ==
    /\ timers = [t \in TimerIds |-> StoppedTimer]
    /\ SystemTime = ZeroTime

\* Start that restarts an enabled timer whatever restart is
TimerStart_Always(tab, now, interval, state, restart) ==
    IF state # NullState
    THEN [tab EXCEPT ![state] = [Interval |-> interval,
                                 TimeStamp |-> AddUnsigned(now, interval),
                                 Enabled |-> TRUE]]
    ELSE tab

\* Timer::Start(interval, state, restart) at system time now
TimerStart(tab, now, interval, state, restart) ==
    IF state # NullState /\ (restart \/ ~tab[state].Enabled)
    THEN [tab EXCEPT ![state] = [Interval |-> interval,
                                 TimeStamp |-> AddUnsigned(now, interval),
                                 Enabled |-> TRUE]]
    ELSE tab

\* Timer::Stop(state)
TimerStop(tab, state) ==
    IF state # NullState THEN [tab EXCEPT ![state].Enabled = FALSE] ELSE tab

\* what the callback of a timer does: nothing, Timer::Stop(state) as the
\* callback of the README's ExampleTimer does, or Timer::Start(0, state, true)
NoEffect == [op |-> "none", state |-> NullState]
Effects ==
    {NoEffect} \cup { [op |-> o, state |-> k] : o \in {"Stop", "Start"}, k \in TimerIds }
CallbackEffect(tab, now, effect) ==
    CASE effect.op = "Stop" -> TimerStop(tab, effect.state)
      [] effect.op = "Start" -> TimerStart(tab, now, ZeroTime, effect.state, TRUE)
      [] OTHER -> tab

\* the table entry n as Tick finds it, the call of its callback with the
\* TimeStamp the timer has by then, and what the callback does
ExamineEvent(tab, now, n) ==
    [op |-> "Examine", timer |-> n, state |-> tab[n], time |-> now]
CallbackEvents(tab, n, effect) ==
    <<[op |-> "Callback", timer |-> n, TimeStamp |-> tab[n].TimeStamp]>>
        \o (IF effect = NoEffect THEN <<>> ELSE <<[op |-> effect.op, timer |-> effect.state]>>)

\* the body of the loop that does not test Enabled
TickEntry_Stopped(c, now, n, does) ==
    IF ~Greater(c.tab[n].TimeStamp, now)
    THEN [tab |-> CallbackEffect(
                      [c.tab EXCEPT ![n].TimeStamp = AddUnsigned(now, c.tab[n].Interval)],
                      now, does[n]),
          log |-> Append(c.log, ExamineEvent(c.tab, now, n))
                      \o CallbackEvents(
                             [c.tab EXCEPT ![n].TimeStamp = AddUnsigned(now, c.tab[n].Interval)],
                             n, does[n])]
    ELSE [tab |-> c.tab, log |-> Append(c.log, ExamineEvent(c.tab, now, n))]

\* Timer::Tick(), the body of the loop at the table entry n: a timer that is
\* enabled and due is given its next TimeStamp and its callback is called
TickEntry(c, now, n, does) ==
    IF c.tab[n].Enabled /\ ~Greater(c.tab[n].TimeStamp, now)
    THEN [tab |-> CallbackEffect(
                      [c.tab EXCEPT ![n].TimeStamp = AddUnsigned(now, c.tab[n].Interval)],
                      now, does[n]),
          log |-> Append(c.log, ExamineEvent(c.tab, now, n))
                      \o CallbackEvents(
                             [c.tab EXCEPT ![n].TimeStamp = AddUnsigned(now, c.tab[n].Interval)],
                             n, does[n])]
    ELSE [tab |-> c.tab, log |-> Append(c.log, ExamineEvent(c.tab, now, n))]

\* Timer::Tick(): the table entries 1..n in order; does[t] is what the
\* callback of the timer t does
RECURSIVE TimerTick(_, _, _, _)
TimerTick(c, now, n, does) ==
    IF n = 0 THEN c ELSE TickEntry(TimerTick(c, now, n - 1, does), now, n, does)

----------------------------------------------------------------------------
(***************************************************************************)
(* Services (Services/IService.h, IService.cpp): the services table in     *)
(* FLASH and the services states table in RAM. A StateType value is the    *)
(* set of the positions of its 1 bits.                                     *)
(***************************************************************************)
\* number of services the program declares with SERVICE_DECLARE
NumServices == 3
ServiceIds == 1..NumServices
\* number of state bits the services use
NumBits == 2
StateTypes == SUBSET (0..(NumBits - 1))

\* a const char *name argument: NULL is 0, the ServiceName of the table
\* entry i is i, and NumServices + 1 is a string that is no entry's Name
NullName == 0
ForeignName == NumServices + 1
Names == 0..(NumServices + 1)

\* the services table: the last service is declared without an Enable
\* callback, the others with one
HasEnable(i) == i < NumServices

\* Services::Init(): memset of the states table to 0
ClearedService ==
    [Enabled |-> FALSE, State |-> {}, ChangedState |-> {}, LocalChangedState |-> {}]
ServicesAtRest == services = [i \in ServiceIds |-> ClearedService]

\* findIndex(name): the entry whose Name pointer is name, -1 when there is none
findIndex(name) == IF name \in ServiceIds THEN name ELSE -1

\* a ^ b on StateType
Xor(a, b) == (a \ b) \cup (b \ a)

\* SetState that does not test Enabled
StructSetState_Forced(st, stateBits, stateMask, force) ==
    [st |-> [st EXCEPT !.ChangedState = @ \cup (Xor(st.State, stateBits) \cap stateMask),
                       !.State = (@ \ stateMask) \cup stateBits],
     ret |-> TRUE]

\* IServiceStateStruct::SetState(stateBits, stateMask, force)
StructSetState(st, stateBits, stateMask, force) ==
    IF ~st.Enabled /\ ~force THEN [st |-> st, ret |-> FALSE]
    ELSE [st |-> [st EXCEPT !.ChangedState = @ \cup (Xor(st.State, stateBits) \cap stateMask),
                            !.State = (@ \ stateMask) \cup stateBits],
          ret |-> TRUE]

\* IServiceStateStruct::SetLocalState(stateBits, force)
StructSetLocalState(st, stateBits, force) ==
    IF ~st.Enabled /\ ~force THEN [st |-> st, ret |-> FALSE]
    ELSE [st |-> [st EXCEPT !.LocalChangedState = @ \cup stateBits], ret |-> TRUE]

\* Services::SetState(name, stateBits, stateMask) over the states table tab
ServicesSetState(tab, name, stateBits, stateMask) ==
    IF findIndex(name) < 0 THEN [tab |-> tab, ret |-> FALSE]
    ELSE [tab |-> [tab EXCEPT ![findIndex(name)] =
                      StructSetState(tab[findIndex(name)], stateBits, stateMask, FALSE).st],
          ret |-> StructSetState(tab[findIndex(name)], stateBits, stateMask, FALSE).ret]

\* Services::SetLocalState(name, stateBits)
ServicesSetLocalState(tab, name, stateBits) ==
    IF findIndex(name) < 0 THEN [tab |-> tab, ret |-> FALSE]
    ELSE [tab |-> [tab EXCEPT ![findIndex(name)] =
                      StructSetLocalState(tab[findIndex(name)], stateBits, FALSE).st],
          ret |-> StructSetLocalState(tab[findIndex(name)], stateBits, FALSE).ret]

\* one call of the Enable callback of the table entry service
EnableEvent(service, name, enable) ==
    [op |-> "Enable", service |-> service, name |-> name, enable |-> enable]

\* the Enable callbacks of the other services in table order, called with
\* (name, enable) and the result ignored
RECURSIVE NotifyOthers(_, _, _)
NotifyOthers(k, name, enable) ==
    IF k > NumServices THEN <<>>
    ELSE IF k # name /\ HasEnable(k)
    THEN <<EnableEvent(k, name, enable)>> \o NotifyOthers(k + 1, name, enable)
    ELSE NotifyOthers(k + 1, name, enable)

\* Services::Enable at the table entry i that name selects: the entry's own
\* Enable callback is called when it is defined and the service is not yet
\* as asked; accepts are the services whose callback returns true
EnableEntry(c, i, name, enable, accepts) ==
    IF HasEnable(i) /\ c.tab[i].Enabled # enable
    THEN IF i \in accepts
         THEN [c EXCEPT !.tab[i].Enabled = enable,
                        !.log = Append(c.log, EnableEvent(i, i, enable))
                                \o (IF name # NullName THEN NotifyOthers(1, name, enable)
                                    ELSE <<>>)]
         ELSE [c EXCEPT !.log = Append(c.log, EnableEvent(i, i, enable))]
    ELSE c

\* Services::Enable(name, enable): the loop over the table from entry i
RECURSIVE EnableLoop(_, _, _, _, _)
EnableLoop(c, i, name, enable, accepts) ==
    IF i > NumServices THEN [c EXCEPT !.ret = (name = NullName)]
    ELSE IF name = NullName
    THEN EnableLoop(EnableEntry(c, i, name, enable, accepts), i + 1, name, enable, accepts)
    ELSE IF i = name
    THEN [EnableEntry(c, i, name, enable, accepts) EXCEPT
             !.ret = (EnableEntry(c, i, name, enable, accepts).tab[i].Enabled = enable)]
    ELSE EnableLoop(c, i + 1, name, enable, accepts)

\* the services table: the first service is declared with the StateChangedBy
\* and LocalStateChanged callbacks of the Example service and without a
\* StateChanged callback, the others with a StateChanged callback only
HasStateChanged(i) == i > 1
HasStateChangedBy(i) == i = 1
HasLocalStateChanged(i) == i = 1

\* Example::StateEnum::S1_Pressed, the pulse bit, and Example::StateLocalEnum
S1_Pressed == {NumBits - 1}
S1 == {0}
Overload == {1}

\* Example::StateChangedBy(name, stateBits, changedStateMask): the value it
\* leaves in stateBits, which is the service's State passed by reference
StateChangedBy_Example(stateBits, changedStateMask) ==
    IF changedStateMask \cap S1_Pressed # {} THEN stateBits \ S1_Pressed ELSE stateBits

\* Example::LocalStateChanged(name, stateBits) up to its last statement: the
\* service's state after SERVICE_STATE(Example).SetState(S1_Pressed)
LocalStateChanged_Example(st) ==
    IF st.LocalChangedState \cap S1 # {}
    THEN StructSetState(st, S1_Pressed, S1_Pressed, FALSE).st
    ELSE st

\* EXTI4_15_IRQHandler of the Example service over its state st
IRQHandler_Example(st) ==
    StructSetLocalState(
        IF st.LocalChangedState \cap S1 # {}
        THEN StructSetLocalState(st, Overload, FALSE).st ELSE st,
        S1, FALSE).st

\* the calls and the assignments of one ProcessStates round, as they happen
StateChangedEvent(service, name, st) ==
    [op |-> "StateChanged", service |-> service, name |-> name, State |-> st.State,
     ChangedState |-> st.ChangedState]
StateChangedByEvent(name, st) ==
    [op |-> "StateChangedBy", service |-> name, name |-> name, State |-> st.State,
     ChangedState |-> st.ChangedState]
ClearEvent(name, st) ==
    [op |-> "Clear", name |-> name, ChangedState |-> st.ChangedState]
LocalStateChangedEvent(name, st) ==
    [op |-> "LocalStateChanged", service |-> name, name |-> name,
     stateBits |-> st.LocalChangedState]
LocalClearEvent(name, st) ==
    [op |-> "LocalClear", name |-> name, stateBits |-> st.LocalChangedState]

\* the inner loop that calls the own StateChanged callback as well
NotifyStep_Self(r) ==
    IF r.j > NumServices THEN [r EXCEPT !.pos = "own"]
    ELSE IF HasStateChanged(r.j)
    THEN [r EXCEPT !.log = Append(@, StateChangedEvent(r.j, r.i, r.tab[r.i])), !.j = @ + 1]
    ELSE [r EXCEPT !.j = @ + 1]

\* Services::ProcessStates, the inner loop at table2 = entry j for the
\* changed service i
NotifyStep(r) ==
    IF r.j > NumServices THEN [r EXCEPT !.pos = "own"]
    ELSE IF r.j # r.i /\ HasStateChanged(r.j)
    THEN [r EXCEPT !.log = Append(@, StateChangedEvent(r.j, r.i, r.tab[r.i])), !.j = @ + 1]
    ELSE [r EXCEPT !.j = @ + 1]

\* Services::ProcessStates, one step from the position r.pos of the round
\* r = [tab, log, i, j, pos]: "test" is the head of the outer loop at the
\* entry i, "notify" the inner loop, "own" the StateChangedBy call, "clear"
\* the assignment ChangedState = 0, "local" the LocalStateChanged call up to
\* the callee's last statement and "localclear" that statement
ProcessStep(r) ==
    CASE r.pos = "test" ->
            IF r.i > NumServices THEN [r EXCEPT !.pos = "done"]
            ELSE IF ~r.tab[r.i].Enabled THEN [r EXCEPT !.i = @ + 1]
            ELSE IF r.tab[r.i].ChangedState # {} THEN [r EXCEPT !.pos = "notify", !.j = 1]
            ELSE [r EXCEPT !.pos = "local"]
      [] r.pos = "notify" -> NotifyStep(r)
      [] r.pos = "own" ->
            IF HasStateChangedBy(r.i)
            THEN [r EXCEPT !.log = Append(@, StateChangedByEvent(r.i, r.tab[r.i])),
                           !.tab[r.i].State =
                               StateChangedBy_Example(@, r.tab[r.i].ChangedState),
                           !.pos = "clear"]
            ELSE [r EXCEPT !.pos = "clear"]
      [] r.pos = "clear" ->
            [r EXCEPT !.log = Append(@, ClearEvent(r.i, r.tab[r.i])),
                      !.tab[r.i].ChangedState = {},
                      !.pos = "local"]
      [] r.pos = "local" ->
            IF HasLocalStateChanged(r.i) /\ r.tab[r.i].LocalChangedState # {}
            THEN [r EXCEPT !.log = Append(@, LocalStateChangedEvent(r.i, r.tab[r.i])),
                           !.tab[r.i] = LocalStateChanged_Example(@),
                           !.pos = "localclear"]
            ELSE [r EXCEPT !.i = @ + 1, !.pos = "test"]
      [] r.pos = "localclear" ->
            [r EXCEPT !.log = Append(@, LocalClearEvent(r.i, r.tab[r.i])),
                      !.tab[r.i].LocalChangedState = {},
                      !.i = @ + 1,
                      !.pos = "test"]

----------------------------------------------------------------------------
(***************************************************************************)
(* UsbBase (Libs/USBbase.hpp and its implementation): the connection state *)
(* machine and the answer to a SETUP request on the control endpoint. A    *)
(* DataPointerStruct is [null, at, len]: Data is NULL or points at the     *)
(* byte number at of the answer the device holds.                          *)
(***************************************************************************)
\* Usb::StateEnum
UNCONNECTED == 0
ATTACHED == 1
POWERED == 2
SUSPENDED == 3
ADDRESSED == 4
CONFIGURED == 5
StateEnum == UNCONNECTED..CONFIGURED

\* Usb::StandardRequestsEnum, the codes the callers send
GET_STATUS == 0
CLEAR_FEATURE == 1
SET_ADDRESS == 5
GET_DESCRIPTOR == 6
SET_CONFIGURATION == 9

\* Usb::DescriptorTypesEnum
DEVICE == 1
INTERFACE == 4

\* Usb::RequestTypeEnum
DIRECTION_DEVICE_TO_HOST == 128

\* sizeof(DeviceRequestStruct)
RequestSize == 8

\* longest answer the device holds, and the largest packet of an endpoint
MaxAnswer == 3
MaxPacket == 2

\* the bytes of the answer the device holds
AnswerBytes == [i \in 1..(MaxAnswer + 1) |-> 16 + i]

\* DataPointerStruct(): Data(NULL), Len(0), also the effect of clear()
NullData == [null |-> TRUE, at |-> 0, len |-> 0]

\* DataPointerStruct::hasData()
hasData(d) == d.len > 0 /\ ~d.null

\* DataPointerStruct::reduceLen(maxLen)
reduceLen(d, maxLen) == IF d.len > maxLen THEN [d EXCEPT !.len = maxLen] ELSE d

\* the local DataPointerStruct that DataPointerStruct::operator+(offset)
\* builds; this->Len - offset wraps when Len < offset
PlusLocal(d, offset) ==
    IF d.len >= offset
    THEN NullData
    ELSE [null |-> d.null, at |-> d.at + offset, len |-> Huge]

\* what may be found where a local of a function that has returned was
PlusGarbage == { [null |-> FALSE, at |-> 0, len |-> 1], [null |-> TRUE, at |-> 0, len |-> 1] }

\* DataPointerStruct::operator+(offset) returns a reference to its local:
\* the values a caller may read through it
Plus(d, offset) == {PlusLocal(d, offset)} \cup PlusGarbage

\* uint16_le_get
uint16_le_get(b) == b[1] + 256 * b[2]

\* memset(&ActiveSetupRequest, 0, sizeof(ActiveSetupRequest))
ZeroRequest ==
    [bmRequestType |-> 0, bRequest |-> 0, wValue |-> <<0, 0>>, wIndex |-> <<0, 0>>,
     wLength |-> <<0, 0>>]

\* the execution context of one call on the object: its fields u, the calls
\* of the virtual stateChanged and the result
UsbCtx(u) == [u |-> u, log |-> <<>>, ret |-> TRUE]

\* UsbBase::stateChanged(newState): switches on the state being left
stateChanged(c, newState) ==
    IF c.u.state = UNCONNECTED
    THEN [c EXCEPT !.u.setupData = NullData,
                   !.u.Current_Configuration = 0, !.u.DeviceAddress = 0,
                   !.u.ActiveSetupRequest = ZeroRequest,
                   !.log = Append(c.log, [op |-> "stateChanged", from |-> c.u.state,
                                          to |-> newState])]
    ELSE IF c.u.state = ATTACHED
    THEN [c EXCEPT !.u.Current_Configuration = 0, !.u.DeviceAddress = 0,
                   !.u.ActiveSetupRequest = ZeroRequest,
                   !.log = Append(c.log, [op |-> "stateChanged", from |-> c.u.state,
                                          to |-> newState])]
    ELSE [c EXCEPT !.log = Append(c.log, [op |-> "stateChanged", from |-> c.u.state,
                                          to |-> newState])]

\* UsbBase::setState(state)
setState(c, state) ==
    IF c.u.state # state
    THEN [stateChanged(c, state) EXCEPT !.u.state = state]
    ELSE c

\* UsbBase::reset()
UsbReset(c) == setState(setState(c, UNCONNECTED), ATTACHED)

\* UsbBase::suspended()
UsbSuspended(c) == setState(c, SUSPENDED)

\* UsbBase::wakeUp()
UsbWakeUp(c) ==
    setState(c, IF c.u.Current_Configuration # 0 THEN CONFIGURED ELSE ATTACHED)

\* the request is refused
Refuse(c) == [c EXCEPT !.ret = FALSE]

\* setupRequest, case GET_DESCRIPTOR; v is what the virtual getDeviceDescriptor
\* does: its result and the answer it stores into _setupData
GetDescriptor(c, v) ==
    IF c.u.ActiveSetupRequest.bmRequestType # DIRECTION_DEVICE_TO_HOST
    THEN Refuse(c)
    ELSE IF c.u.ActiveSetupRequest.wValue[2] = DEVICE
    THEN IF ~v.ok
         THEN Refuse(c)
         ELSE [c EXCEPT !.u.setupData =
                   reduceLen(v.answer, uint16_le_get(c.u.ActiveSetupRequest.wLength))]
    ELSE [c EXCEPT !.u.setupData =
              reduceLen(c.u.setupData, uint16_le_get(c.u.ActiveSetupRequest.wLength))]

\* setupRequest, case SET_ADDRESS
SetAddress(c) ==
    IF c.u.ActiveSetupRequest.bmRequestType # 0
    THEN Refuse(c)
    ELSE IF c.u.state < ADDRESSED
    THEN setState([c EXCEPT !.u.DeviceAddress = c.u.ActiveSetupRequest.wValue[1] % 128],
                  ADDRESSED)
    ELSE Refuse(c)

\* SET_CONFIGURATION that does not look at the connection state before it
\* sets the configuration
SetConfiguration_AnyState(c, v) ==
    IF c.u.ActiveSetupRequest.bmRequestType # 0
    THEN Refuse(c)
    ELSE IF c.u.state = CONFIGURED /\ c.u.ActiveSetupRequest.wValue[1] = 0
    THEN setState(c, ADDRESSED)
    ELSE IF ~v.ok
    THEN Refuse(c)
    ELSE IF c.u.state = CONFIGURED
    THEN setState(
           setState([c EXCEPT !.u.Current_Configuration = c.u.ActiveSetupRequest.wValue[1]],
                    ADDRESSED),
           CONFIGURED)
    ELSE setState([c EXCEPT !.u.Current_Configuration = c.u.ActiveSetupRequest.wValue[1]],
                  CONFIGURED)

\* setupRequest, case SET_CONFIGURATION; v.ok is the result of the virtual
\* setConfiguration
SetConfiguration(c, v) ==
    IF c.u.ActiveSetupRequest.bmRequestType # 0
    THEN Refuse(c)
    ELSE IF c.u.state < ADDRESSED
    THEN Refuse(c)
    ELSE IF c.u.state = CONFIGURED /\ c.u.ActiveSetupRequest.wValue[1] = 0
    THEN setState(c, ADDRESSED)
    ELSE IF ~v.ok
    THEN Refuse(c)
    ELSE IF c.u.state = ADDRESSED
    THEN setState([c EXCEPT !.u.Current_Configuration = c.u.ActiveSetupRequest.wValue[1]],
                  CONFIGURED)
    ELSE IF c.u.state = CONFIGURED
    THEN setState(
           setState([c EXCEPT !.u.Current_Configuration = c.u.ActiveSetupRequest.wValue[1]],
                    ADDRESSED),
           CONFIGURED)
    ELSE Refuse([c EXCEPT !.u.Current_Configuration = c.u.ActiveSetupRequest.wValue[1]])

\* setupRequest, default: the assignment _setupData = data + sizeof(...)
\* adds to the pointer data and calls operator=(const DataPointerStruct *),
\* which copies into a local and leaves _setupData as it is; v is what the
\* virtual setupNonStandartRequest does
NonStandard(c, v) ==
    IF ~v.ok
    THEN Refuse([c EXCEPT !.u.setupData = NullData])
    ELSE [c EXCEPT !.u.setupData =
              reduceLen(v.answer, uint16_le_get(c.u.ActiveSetupRequest.wLength))]

\* setupRequest after the request was saved
Dispatch(c, v) ==
    IF c.u.ActiveSetupRequest.bRequest = GET_DESCRIPTOR THEN GetDescriptor(c, v)
    ELSE IF c.u.ActiveSetupRequest.bRequest = SET_ADDRESS THEN SetAddress(c)
    ELSE IF c.u.ActiveSetupRequest.bRequest = SET_CONFIGURATION THEN SetConfiguration(c, v)
    ELSE IF c.u.ActiveSetupRequest.bRequest = GET_STATUS THEN c
    ELSE NonStandard(c, v)

\* UsbBase::setupRequest(ep, data): data holds len bytes, the request
UsbSetupRequest(c, len, request, v) ==
    IF len < RequestSize
    THEN Refuse(c)
    ELSE Dispatch([c EXCEPT !.u.ActiveSetupRequest = request], v)

\* UsbBase::controlEPOutgoingData(ep, data) with getMaxPacketSize(ep->Index)
\* = maxPacket: the chunk stored into *data, and the values _setupData may
\* take from the reference operator+ returns
NextPacketSize(u, maxPacket) == IF u.setupData.len < maxPacket THEN u.setupData.len ELSE maxPacket
OutgoingChunk(u, maxPacket) == reduceLen(u.setupData, NextPacketSize(u, maxPacket))
OutgoingRest(u, maxPacket) == Plus(u.setupData, NextPacketSize(u, maxPacket))

\* the object while the program does not use it
UsbIdle ==
    [state |-> UNCONNECTED, Current_Configuration |-> 0, DeviceAddress |-> 0,
     setupData |-> NullData, ActiveSetupRequest |-> ZeroRequest]
UsbAtRest == usb = UsbIdle

----------------------------------------------------------------------------
\* The caller's payloads: for each length two of them, which differ from one
\* position to the next and from each other in every byte
Seeds == {0, 1}
Payload(v, len) == [i \in 1..len |-> (v + i) % (MaxByte + 1)]

\* Content of the store at construction, and contents of the uninitialised buffer
InitMem == [a \in Addresses |-> (a + (a \div PAGE_SIZE)) % (MaxByte + 1)]
\* with the value the uninitialised m_Address may hold
Uninitialised == { [address |-> 1, buffer |-> [o \in Offsets |-> 0]],
                   [address |-> PAGE_SIZE, buffer |-> [o \in Offsets |-> MaxByte]] }

NoCall == [op |-> "none", address |-> 0, len |-> 0, data |-> <<>>, cb |-> FALSE]

\* The object after construction: m_Status = Empty, m_Address and m_Buffer
\* are not initialised
Init ==
    /\ m_Status = "Empty"
    /\ \E u \in Uninitialised : m_Address = u.address /\ m_Buffer = u.buffer
    /\ mem = InitMem
    /\ pre = Snapshot
    /\ calls = 0
    /\ pc = "idle"
    /\ call = NoCall
    /\ ret = TRUE
    /\ out = <<>>
    /\ log = <<>>
    /\ StorageAtRest
    /\ TimersAtRest
    /\ ServicesAtRest
    /\ UsbAtRest

\* the fields and the observations a call leaves behind
Finish(c, op, address, len, data, cb) ==
    /\ calls' = calls + 1
    /\ pre' = Snapshot
    /\ m_Status' = c.status
    /\ m_Address' = c.addr
    /\ m_Buffer' = c.buf
    /\ mem' = c.mem
    /\ pc' = "returned"
    /\ call' = [op |-> op, address |-> address, len |-> len, data |-> data, cb |-> cb]
    /\ ret' = c.ok
    /\ out' = c.out
    /\ log' = c.log
    /\ UNCHANGED storageVars
    /\ UNCHANGED timerVars
    /\ UNCHANGED serviceVars
    /\ UNCHANGED usbVars

SetData(v, address, len, cb, failAt) ==
    /\ pc = "idle"
    /\ calls < MaxCalls
    /\ \E c \in {SetDataLoop(Ctx(failAt), Payload(v, len), address, len, cb)} :
          Finish(c, "SetData", address, len, Payload(v, len), cb)

GetData(address, len, failAt) ==
    /\ pc = "idle"
    /\ calls < MaxCalls
    /\ \E c \in {GetDataLoop(Ctx(failAt), address, len)} :
          Finish(c, "GetData", address, len, <<>>, FALSE)

Flush(cb, failAt) ==
    /\ pc = "idle"
    /\ calls < MaxCalls
    /\ \E c \in {FlushCtx(Ctx(failAt), cb)} : Finish(c, "Flush", 0, 0, <<>>, cb)

Clear ==
    /\ pc = "idle"
    /\ calls < MaxCalls
    /\ \E c \in {ClearCtx(Ctx(0))} : Finish(c, "Clear", 0, 0, <<>>, FALSE)

\* the caller takes the result and is ready for its next call
Return ==
    /\ pc = "returned"
    /\ pc' = "idle"
    /\ call' = NoCall
    /\ ret' = TRUE
    /\ out' = <<>>
    /\ log' = <<>>
    /\ pre' = Snapshot
    /\ UNCHANGED <<m_Status, m_Address, m_Buffer, mem, calls>>
    /\ UNCHANGED storageVars
    /\ UNCHANGED timerVars
    /\ UNCHANGED serviceVars
    /\ UNCHANGED usbVars

\* requests stay inside the backing store
Requests == { r \in Addresses \X (0..MemSize) : r[1] + r[2] <= MemSize }

Next ==
    \/ \E r \in Requests, v \in Seeds, cb \in BOOLEAN, failAt \in 0..MaxFail :
          SetData(v, r[1], r[2], cb, failAt)
    \/ \E r \in Requests, failAt \in 0..MaxFail : GetData(r[1], r[2], failAt)
    \/ \E cb \in BOOLEAN, failAt \in 0..MaxFail : Flush(cb, failAt)
    \/ Clear
    \/ Return

Spec == Init /\ [][Next]_vars

\* the same calls over a backing store whose Read and Write never fail
NextReliable ==
    \/ \E r \in Requests, v \in Seeds, cb \in BOOLEAN : SetData(v, r[1], r[2], cb, 0)
    \/ \E r \in Requests : GetData(r[1], r[2], 0)
    \/ \E cb \in BOOLEAN : Flush(cb, 0)
    \/ Clear
    \/ Return

SpecReliable == Init /\ [][NextReliable]_vars

\* a caller that only writes and flushes, over a backing store that never
\* fails: no GetData and no Clear
NextWriter ==
    \/ \E r \in Requests, v \in Seeds, cb \in BOOLEAN : SetData(v, r[1], r[2], cb, 0)
    \/ \E cb \in BOOLEAN : Flush(cb, 0)
    \/ Return

SpecWriter == Init /\ [][NextWriter]_vars

TypeOK ==
    /\ m_Status \in {"Empty", "HasData", "Dirty"}
    /\ m_Buffer \in [Offsets -> Bytes]
    /\ mem \in [Addresses -> Bytes]
    /\ calls \in 0..MaxCalls
    /\ pc \in {"idle", "returned"}
    /\ IF call.op \in {"IsStorageCorrect", "isPageCorrect"}
       THEN ret \in {"Ok", "NoStorage", "AnotherStorage", "DeviceError",
                     "StorageError", "Error"}
       ELSE ret \in BOOLEAN
    /\ device \in [DeviceIndexes -> 0..255]
    /\ width \in AddressSizes
    /\ reader_Address \in Bases
    /\ page_Address \in Bases

----------------------------------------------------------------------------
\* the cache while the program uses only the storage objects
CacheAtRest ==
    /\ m_Status = "Empty"
    /\ m_Address = 0
    /\ m_Buffer = [o \in Offsets |-> 0]
    /\ mem = InitMem
    /\ pre = Snapshot

\* The storage objects after construction over an erased device: the reader
\* and the page object are constructed with one of the region addresses
InitStorage ==
    /\ CacheAtRest
    /\ TimersAtRest
    /\ ServicesAtRest
    /\ UsbAtRest
    /\ device = Erased
    /\ width \in AddressSizes
    /\ reader_Address \in Bases
    /\ page_Address = 0
    /\ spre = StorageSnapshot
    /\ calls = 0
    /\ pc = "idle"
    /\ call = NoCall
    /\ ret = TRUE
    /\ out = <<>>
    /\ log = <<>>

\* the device and the observations a storage call leaves behind
StorageFinish(c, request, result) ==
    /\ calls' = calls + 1
    /\ spre' = StorageSnapshot
    /\ device' = c.dev
    /\ pc' = "returned"
    /\ call' = request
    /\ ret' = result
    /\ out' = c.out
    /\ log' = c.log
    /\ UNCHANGED <<width, m_Status, m_Address, m_Buffer, mem, pre>>
    /\ UNCHANGED timerVars
    /\ UNCHANGED serviceVars
    /\ UNCHANGED usbVars

IsStorageCorrect(address, uuid, failAt) ==
    /\ pc = "idle"
    /\ calls < MaxCalls
    /\ \E c \in {IsStorageCorrectCtx(StorageCtx(reader_Address, failAt), address, uuid)} :
          /\ StorageFinish(c, [op |-> "IsStorageCorrect", address |-> address, uuid |-> uuid],
                           c.res)
          /\ reader_Address' = c.addr
          /\ UNCHANGED page_Address

ReaderGetData(len, offset, failAt) ==
    /\ pc = "idle"
    /\ calls < MaxCalls
    /\ \E c \in {ReaderGetDataCtx(StorageCtx(reader_Address, failAt), len, offset)} :
          /\ StorageFinish(c, [op |-> "Reader.GetData", len |-> len, offset |-> offset], c.ok)
          /\ UNCHANGED <<reader_Address, page_Address>>

\* crcOk: the caller passes the checksum of its data, or another value
WriterSetData(len, crcOk, failAt) ==
    /\ pc = "idle"
    /\ calls < MaxCalls
    /\ \E c \in {WriterSetDataCtx(StorageCtx(WriterAddress, failAt), WriterUuid,
                                   StoragePayload(len), ToBytes(len, UIntSize),
                                   IF crcOk THEN CrcOf(StoragePayload(len))
                                   ELSE AddUnsigned(CrcOf(StoragePayload(len)),
                                                    ToBytes(1, CrcSize)))} :
          /\ StorageFinish(c, [op |-> "Writer.SetData", address |-> WriterAddress,
                               uuid |-> WriterUuid, data |-> StoragePayload(len),
                               len |-> len, crcOk |-> crcOk], c.ok)
          /\ UNCHANGED <<reader_Address, page_Address>>

\* the caller takes the result of a storage call
StorageReturn ==
    /\ pc = "returned"
    /\ pc' = "idle"
    /\ call' = NoCall
    /\ ret' = TRUE
    /\ out' = <<>>
    /\ log' = <<>>
    /\ spre' = StorageSnapshot
    /\ UNCHANGED <<device, width, reader_Address, page_Address, calls>>
    /\ UNCHANGED <<m_Status, m_Address, m_Buffer, mem, pre>>
    /\ UNCHANGED timerVars
    /\ UNCHANGED serviceVars
    /\ UNCHANGED usbVars

NextStorage ==
    \/ \E address \in Bases, uuid \in Uuids, failAt \in 0..MaxFail :
          IsStorageCorrect(address, uuid, failAt)
    \/ \E len \in SmallUInts \cup {UIntMax}, offset \in {ToBytes(0, UIntSize), ToBytes(1, UIntSize), UIntMax},
          failAt \in 0..MaxFail :
          ReaderGetData(len, offset, failAt)
    \/ \E len \in 0..MaxLen, crcOk \in BOOLEAN, failAt \in 0..(MaxFail + 3) :
          WriterSetData(len, crcOk, failAt)
    \/ StorageReturn

SpecStorage == InitStorage /\ [][NextStorage]_vars

----------------------------------------------------------------------------
\* PageHeaderMetricsStruct: the fields as they lie in memory
Metrics(total, offset, length, crc) ==
    [TotalLength |-> ToBytes(total, LengthSize), PageOffset |-> ToBytes(offset, LengthSize),
     PageLength |-> ToBytes(length, LengthSize), PageCrc |-> crc]

\* the size metrics the callers pass to SetHeader: a page that holds the whole
\* object, the empty last page of an object, a PageLength beyond TotalLength,
\* a PageOffset beyond TotalLength, and a page that starts inside the object
\* and ends beyond it
MetricCases ==
    { [total |-> MaxLen, offset |-> 0, length |-> MaxLen],
      [total |-> MaxLen, offset |-> MaxLen, length |-> 0],
      [total |-> 0, offset |-> 0, length |-> MaxLen],
      [total |-> 0, offset |-> MaxLen, length |-> 0],
      [total |-> MaxLen, offset |-> 1, length |-> MaxLen] }

\* the page lengths the callers pass to isPageCorrect, as LENGTH_TYPE: one
\* below the documented range sizeof(PageHeaderStruct).., a page without room
\* for payload and a page with room for the longest payload
PageLens ==
    { ToBytes(PageHeaderSize - 1, LengthSize), ToBytes(PageHeaderSize, LengthSize),
      ToBytes(PageHeaderSize + MaxLen, LengthSize) }

\* CheckOptions(dontCheckCrc, dontCheckMetrics)
CheckOptions == [DontCheckCrc : BOOLEAN, DontCheckMetrics : BOOLEAN]
\* CheckOptions(): both constructor arguments default to false
DefaultOptions == [DontCheckCrc |-> FALSE, DontCheckMetrics |-> FALSE]

\* what earlier runs of the program left on the device: nothing, a page with
\* its payload at address 0, or a single region at address 0
PageOnDevice ==
    SetHeaderCtx(DeviceWrite(CtxOver(Erased, UIntSize, 0, 0), StoragePayload(MaxLen),
                             PageHeaderSize, MaxLen),
                 PageUuid, Metrics(MaxLen, 0, MaxLen, CrcOf(StoragePayload(MaxLen)))).dev
RegionOnDevice ==
    WriterSetDataCtx(CtxOver(Erased, UIntSize, WriterAddress, 0), WriterUuid,
                     StoragePayload(MaxLen), ToBytes(MaxLen, UIntSize),
                     CrcOf(StoragePayload(MaxLen))).dev

\* The page object after construction with (PageUuid, address), and a reader
\* constructed over the other half of the same device
InitPage ==
    /\ CacheAtRest
    /\ TimersAtRest
    /\ ServicesAtRest
    /\ UsbAtRest
    /\ device \in {Erased, PageOnDevice, RegionOnDevice}
    /\ width = UIntSize
    /\ reader_Address = DeviceSize \div 2
    /\ page_Address \in Bases
    /\ spre = StorageSnapshot
    /\ calls = 0
    /\ pc = "idle"
    /\ call = NoCall
    /\ ret = TRUE
    /\ out = <<>>
    /\ log = <<>>

\* crcOk: the caller passes the checksum of the metrics.PageLength bytes that
\* lie after the header, or another value
SetHeader(m, crcOk, failAt) ==
    /\ pc = "idle"
    /\ calls < MaxCalls
    /\ \E metrics \in
          {Metrics(m.total, m.offset, m.length,
                   IF crcOk
                   THEN CrcOf(DeviceBytes(device, page_Address + PageHeaderSize, m.length))
                   ELSE AddUnsigned(CrcOf(DeviceBytes(device, page_Address + PageHeaderSize,
                                                      m.length)), ToBytes(1, CrcSize)))} :
        \E c \in {SetHeaderCtx(StorageCtx(page_Address, failAt), PageUuid, metrics)} :
          /\ StorageFinish(c, [op |-> "SetHeader", metrics |-> metrics, crcOk |-> crcOk], c.ok)
          /\ UNCHANGED <<reader_Address, page_Address>>

\* a derived class stores the payload of its page:
\* WritePage(data, m_Address + sizeof(PageHeaderStruct), len)
WritePayload(len, failAt) ==
    /\ pc = "idle"
    /\ calls < MaxCalls
    /\ \E c \in {DeviceWrite(StorageCtx(page_Address, failAt), StoragePayload(len),
                             page_Address + PageHeaderSize, len)} :
          /\ StorageFinish(c, [op |-> "WritePayload", data |-> StoragePayload(len),
                               len |-> len], c.ok)
          /\ UNCHANGED <<reader_Address, page_Address>>

isPageCorrect(address, pageLen, options, failAt) ==
    /\ pc = "idle"
    /\ calls < MaxCalls
    /\ \E c \in {isPageCorrectCtx(StorageCtx(page_Address, failAt), PageUuid, address,
                                  pageLen, options)} :
          /\ StorageFinish(c, [op |-> "isPageCorrect", address |-> address,
                               pageLen |-> pageLen, options |-> options,
                               crcs |-> c.crcs], c.res)
          /\ page_Address' = c.addr
          /\ UNCHANGED reader_Address

\* getMetrics(metrics): the metrics of the page at m_Address
GetMetrics(failAt) ==
    /\ pc = "idle"
    /\ calls < MaxCalls
    /\ \E c \in {getMetrics(StorageCtx(page_Address, failAt), page_Address)} :
          /\ StorageFinish([c EXCEPT !.out = <<c.TotalLength, c.PageOffset, c.PageLength,
                                               c.PageCrc>>],
                           [op |-> "getMetrics"], c.ok)
          /\ UNCHANGED <<reader_Address, page_Address>>

NextPage ==
    \/ \E m \in MetricCases, crcOk \in BOOLEAN, failAt \in 0..(MaxFail + 4) :
          SetHeader(m, crcOk, failAt)
    \/ \E len \in 1..MaxLen, failAt \in 0..1 : WritePayload(len, failAt)
    \/ \E address \in Bases, pageLen \in PageLens, options \in CheckOptions,
          failAt \in 0..(MaxFail + 2) :
          isPageCorrect(address, pageLen, options, failAt)
    \/ \E failAt \in 0..(MaxFail + 2) : GetMetrics(failAt)
    \/ \E address \in Bases, uuid \in Uuids, failAt \in 0..MaxFail :
          IsStorageCorrect(address, uuid, failAt)
    \/ StorageReturn

SpecPage == InitPage /\ [][NextPage]_vars

\* the program that writes regions and pages to one device, through the
\* single-region writer and the page class, and validates them with default
\* options
NextDevice ==
    \/ \E len \in 0..MaxLen, crcOk \in BOOLEAN, failAt \in 0..MaxFail :
          WriterSetData(len, crcOk, failAt)
    \/ \E m \in MetricCases, crcOk \in BOOLEAN, failAt \in 0..MaxFail :
          SetHeader(m, crcOk, failAt)
    \/ \E len \in 1..MaxLen : WritePayload(len, 0)
    \/ \E address \in Bases, uuid \in Uuids : IsStorageCorrect(address, uuid, 0)
    \/ \E address \in Bases, pageLen \in PageLens :
          isPageCorrect(address, pageLen, DefaultOptions, 0)
    \/ StorageReturn
SpecDevice == InitStorage /\ [][NextDevice]_vars

----------------------------------------------------------------------------
(***************************************************************************)
(* System::UUID (Libs/UUID.hpp): sixteen bytes and the comparison of two   *)
(* of them given by pointer.                                               *)
(***************************************************************************)
\* a pointer to a UUID: NULL, or the sixteen bytes it points at
NullPointer == [null |-> TRUE, bytes |-> <<>>]
PointerTo(u) == [null |-> FALSE, bytes |-> u]

\* memcmp(a, b, n): 0 when the first n bytes are equal, else the sign of the
\* difference of the first two bytes that differ
RECURSIVE memcmp(_, _, _, _)
memcmp(a, b, i, n) ==
    IF i > n THEN 0
    ELSE IF a[i] < b[i] THEN -1
    ELSE IF a[i] > b[i] THEN 1
    ELSE memcmp(a, b, i + 1, n)

\* IsEqual that leaves the last byte out of the comparison
UUID_IsEqual_Short(o1, o2) ==
    IF o1.null \/ o2.null THEN FALSE
    ELSE memcmp(o1.bytes, o2.bytes, 1, UuidSize - 1) = 0

\* UUID::IsEqual(o1, o2)
UUID_IsEqual(o1, o2) ==
    IF o1.null \/ o2.null THEN FALSE
    ELSE memcmp(o1.bytes, o2.bytes, 1, UuidSize) = 0

\* the identifiers the callers compare: the two data identities, the two
\* magic values, and identities that differ from UuidA in one byte
UuidValues ==
    {UuidA, UuidB, StorageUUID, PageStorageUUID}
        \cup { [UuidA EXCEPT ![k] = 255 - UuidA[k]] : k \in 1..UuidSize }
UuidPointers == {NullPointer} \cup { PointerTo(u) : u \in UuidValues }

InitUUID ==
    /\ CacheAtRest
    /\ TimersAtRest
    /\ ServicesAtRest
    /\ UsbAtRest
    /\ StorageAtRest
    /\ calls = 0
    /\ pc = "idle"
    /\ call = NoCall
    /\ ret = TRUE
    /\ out = <<>>
    /\ log = <<>>

IsEqual(o1, o2) ==
    /\ pc = "idle"
    /\ calls < MaxCalls
    /\ calls' = calls + 1
    /\ pc' = "returned"
    /\ call' = [op |-> "IsEqual", o1 |-> o1, o2 |-> o2]
    /\ ret' = UUID_IsEqual(o1, o2)
    /\ out' = <<>>
    /\ log' = <<>>
    /\ UNCHANGED cacheVars
    /\ UNCHANGED storageVars
    /\ UNCHANGED timerVars
    /\ UNCHANGED serviceVars
    /\ UNCHANGED usbVars

NextUUID ==
    \/ \E o1 \in UuidPointers, o2 \in UuidPointers : IsEqual(o1, o2)
    \/ StorageReturn

SpecUUID == InitUUID /\ [][NextUUID]_vars

----------------------------------------------------------------------------
\* the components the program does not use in a run of the timers or of the
\* services
OthersAtRest ==
    /\ CacheAtRest
    /\ StorageAtRest
    /\ calls = 0
    /\ pc = "idle"
    /\ call = NoCall
    /\ ret = TRUE
    /\ out = <<>>
    /\ log = <<>>

\* the observations a call leaves behind
Observe(request, result, events) ==
    /\ pc = "idle"
    /\ calls < MaxCalls
    /\ calls' = calls + 1
    /\ pc' = "returned"
    /\ call' = request
    /\ ret' = result
    /\ out' = <<>>
    /\ log' = events
    /\ UNCHANGED cacheVars
    /\ UNCHANGED storageVars
    /\ UNCHANGED usbVars

\* the clock two ticks before it wraps
WrapStart == [i \in 1..UIntSize |-> IF i = 1 THEN 254 ELSE 255]
\* unsigned int intervals: the short ones and UINT_MAX
Intervals == { ToBytes(v, UIntSize) : v \in 0..MaxTime } \cup {UIntMax}

\* the timers after Timer::Init(), at device initialisation or when the
\* clock is about to wrap
InitTimer ==
    /\ OthersAtRest
    /\ ServicesAtRest
    /\ UsbAtRest
    /\ SystemTime \in {ZeroTime, WrapStart}
    /\ \E running \in SUBSET TimerIds :
          timers = [t \in TimerIds |->
                      IF t \in running
                      THEN [Interval |-> ZeroTime, TimeStamp |-> SystemTime, Enabled |-> TRUE]
                      ELSE StoppedTimer]

Start(interval, state, restart) ==
    /\ Observe([op |-> "Start", interval |-> interval, state |-> state, restart |-> restart,
                timers |-> timers, time |-> SystemTime], TRUE, <<>>)
    /\ timers' = TimerStart(timers, SystemTime, interval, state, restart)
    /\ UNCHANGED <<SystemTime, services>>

Stop(state) ==
    /\ Observe([op |-> "Stop", state |-> state, timers |-> timers, time |-> SystemTime],
               TRUE, <<>>)
    /\ timers' = TimerStop(timers, state)
    /\ UNCHANGED <<SystemTime, services>>

Tick(does) ==
    /\ \E c \in {TimerTick([tab |-> timers, log |-> <<>>], SystemTime, NumTimers, does)} :
          /\ Observe([op |-> "Tick", timers |-> timers, time |-> SystemTime, does |-> does],
                     TRUE, c.log)
          /\ timers' = c.tab
    /\ UNCHANGED <<SystemTime, services>>

\* the system tick interrupt: one millisecond has passed
SysTick ==
    /\ pc = "idle"
    /\ Greater(SystemTime, ToBytes(MaxTime, UIntSize)) \/ ToNat(SystemTime) < MaxTime
    /\ SystemTime' = AddUnsigned(SystemTime, ToBytes(1, UIntSize))
    /\ UNCHANGED <<timers, services, calls, pc, call, ret, out, log>>
    /\ UNCHANGED cacheVars
    /\ UNCHANGED storageVars
    /\ UNCHANGED usbVars

\* the caller takes the result of a timer or services call
PlainReturn ==
    /\ pc = "returned"
    /\ pc' = "idle"
    /\ call' = NoCall
    /\ ret' = TRUE
    /\ out' = <<>>
    /\ log' = <<>>
    /\ UNCHANGED <<calls, timers, SystemTime, services>>
    /\ UNCHANGED cacheVars
    /\ UNCHANGED storageVars
    /\ UNCHANGED usbVars

\* the callbacks of the program: at most one of them calls Stop or Start
Callbacks ==
    { does \in [TimerIds -> Effects] : \A t, u \in TimerIds :
          (does[t] # NoEffect /\ does[u] # NoEffect) => t = u }

NextTimer ==
    \/ \E interval \in Intervals, state \in {NullState} \cup TimerIds, restart \in BOOLEAN :
          Start(interval, state, restart)
    \/ \E state \in {NullState} \cup TimerIds : Stop(state)
    \/ \E does \in Callbacks : Tick(does)
    \/ SysTick
    \/ PlainReturn

SpecTimer == InitTimer /\ [][NextTimer]_vars

----------------------------------------------------------------------------
\* the services after Services::Init() and the program's Enable calls at
\* start-up: some of the services that can be enabled are
InitServices ==
    /\ OthersAtRest
    /\ TimersAtRest
    /\ UsbAtRest
    /\ \E on \in SUBSET {i \in ServiceIds : HasEnable(i)} :
          services = [i \in ServiceIds |-> [ClearedService EXCEPT !.Enabled = (i \in on)]]

Enable(name, enable, accepts) ==
    /\ \E c \in {EnableLoop([tab |-> services, ret |-> FALSE, log |-> <<>>], 1, name, enable,
                            accepts)} :
          /\ Observe([op |-> "Enable", name |-> name, enable |-> enable,
                      services |-> services], c.ret, c.log)
          /\ services' = c.tab
    /\ UNCHANGED timerVars

SetState(name, stateBits, stateMask) ==
    /\ \E c \in {ServicesSetState(services, name, stateBits, stateMask)} :
          /\ Observe([op |-> "SetState", name |-> name, stateBits |-> stateBits,
                      stateMask |-> stateMask, services |-> services], c.ret, <<>>)
          /\ services' = c.tab
    /\ UNCHANGED timerVars

SetLocalState(name, stateBits) ==
    /\ \E c \in {ServicesSetLocalState(services, name, stateBits)} :
          /\ Observe([op |-> "SetLocalState", name |-> name, stateBits |-> stateBits,
                      services |-> services], c.ret, <<>>)
          /\ services' = c.tab
    /\ UNCHANGED timerVars

\* the state bits and masks the callers pass: no bit, the lowest bit, the
\* highest bit and all bits
StateInputs == { {}, {0}, {NumBits - 1}, 0..(NumBits - 1) }

NextServices ==
    \/ \E name \in Names, enable \in BOOLEAN, accepts \in SUBSET ServiceIds :
          Enable(name, enable, accepts)
    \/ \E name \in Names, stateBits \in StateInputs, stateMask \in StateInputs :
          SetState(name, stateBits, stateMask)
    \/ \E name \in Names, stateBits \in StateInputs : SetLocalState(name, stateBits)
    \/ PlainReturn

SpecServices == InitServices /\ [][NextServices]_vars

----------------------------------------------------------------------------
\* the State and ChangedState a service has when a round begins: nothing
\* pending, a bit set, a bit set and cleared again, the pulse bit set
Pendings ==
    { <<{}, {}>>, <<{0}, {0}>>, <<{}, {0}>>, <<0..(NumBits - 1), S1_Pressed>> }

\* the services when the message loop calls ProcessStates: the services with
\* an Enable callback have been enabled or not, SetState and SetLocalState
\* have been called on them, and the last service was never enabled
InitRound ==
    /\ OthersAtRest
    /\ TimersAtRest
    /\ UsbAtRest
    /\ \E on \in SUBSET {i \in ServiceIds : HasEnable(i)},
          pending \in [{i \in ServiceIds : HasEnable(i)} -> Pendings],
          local \in [{i \in ServiceIds : HasEnable(i)} -> {{}, S1}] :
          services = [i \in ServiceIds |->
                        IF HasEnable(i)
                        THEN [Enabled |-> i \in on, State |-> pending[i][1],
                              ChangedState |-> pending[i][2],
                              LocalChangedState |-> local[i]]
                        ELSE ClearedService]

\* the message loop enters Services::ProcessStates
ProcessStates ==
    /\ pc = "idle"
    /\ calls < MaxCalls
    /\ calls' = calls + 1
    /\ pc' = "round"
    /\ call' = [op |-> "ProcessStates", services |-> services, i |-> 1, j |-> 1,
                pos |-> "test"]
    /\ ret' = TRUE
    /\ out' = <<>>
    /\ log' = <<>>
    /\ UNCHANGED <<services>>
    /\ UNCHANGED timerVars
    /\ UNCHANGED cacheVars
    /\ UNCHANGED storageVars
    /\ UNCHANGED usbVars

\* Services::ProcessStates goes on by one step and returns after the last
RoundStep ==
    /\ pc = "round"
    /\ \E r \in {ProcessStep([tab |-> services, log |-> log, i |-> call.i, j |-> call.j,
                              pos |-> call.pos])} :
          /\ services' = r.tab
          /\ log' = r.log
          /\ call' = [call EXCEPT !.i = r.i, !.j = r.j, !.pos = r.pos]
          /\ pc' = IF r.pos = "done" THEN "returned" ELSE "round"
    /\ UNCHANGED <<calls, ret, out>>
    /\ UNCHANGED timerVars
    /\ UNCHANGED cacheVars
    /\ UNCHANGED storageVars
    /\ UNCHANGED usbVars

\* an interrupt arrives while the round runs; one interrupt in a round
Interrupted == \E n \in DOMAIN log : log[n].op = "Irq"
Interrupt(tab) ==
    /\ pc = "round"
    /\ ~Interrupted
    /\ services' = tab
    /\ log' = Append(log, [op |-> "Irq"])
    /\ UNCHANGED <<calls, pc, call, ret, out>>
    /\ UNCHANGED timerVars
    /\ UNCHANGED cacheVars
    /\ UNCHANGED storageVars
    /\ UNCHANGED usbVars

\* an interrupt handler that calls Services::SetState(name, stateBits, stateBits)
IrqSetState(name, stateBits) ==
    Interrupt(ServicesSetState(services, name, stateBits, stateBits).tab)

\* EXTI4_15_IRQHandler, the interrupt of the S1 button of the Example service
EXTI4_15_IRQHandler == Interrupt([services EXCEPT ![1] = IRQHandler_Example(@)])

NextRound ==
    \/ ProcessStates
    \/ RoundStep
    \/ \E name \in {i \in ServiceIds : HasEnable(i)}, stateBits \in StateInputs \ {{}} :
          IrqSetState(name, stateBits)
    \/ EXTI4_15_IRQHandler
    \/ PlainReturn

SpecRound == InitRound /\ [][NextRound]_vars

----------------------------------------------------------------------------
\* a SETUP request as it lies in the request data
Request(t, r, lo, hi, l) ==
    [bmRequestType |-> t, bRequest |-> r, wValue |-> <<lo, hi>>, wIndex |-> <<0, 0>>,
     wLength |-> <<l, 0>>]

\* what a virtual function called by setupRequest does: it fails, or it
\* succeeds and stores an answer of len bytes into _setupData
Fails == [ok |-> FALSE, answer |-> NullData]
Stores(len) == [ok |-> TRUE, answer |-> [null |-> FALSE, at |-> 0, len |-> len]]

\* the SETUP requests the host sends, each with what the virtual function
\* it reaches does
SetupCalls ==
    { <<Request(t, SET_ADDRESS, lo, 0, 0), Fails>> :
         t \in {0, DIRECTION_DEVICE_TO_HOST}, lo \in {0, 1, 133} }
    \cup
    { <<Request(t, SET_CONFIGURATION, lo, 0, 0), v>> :
         t \in {0, DIRECTION_DEVICE_TO_HOST}, lo \in {0, 1, 133}, v \in {Fails, Stores(0)} }
    \cup
    { <<Request(DIRECTION_DEVICE_TO_HOST, GET_DESCRIPTOR, 0, DEVICE, l), v>> :
         l \in {0, MaxAnswer, MaxAnswer + 1},
         v \in {Fails, Stores(MaxAnswer), Stores(MaxAnswer + 1)} }
    \cup
    { <<Request(0, GET_DESCRIPTOR, 0, DEVICE, MaxAnswer), Stores(MaxAnswer)>>,
      <<Request(DIRECTION_DEVICE_TO_HOST, GET_DESCRIPTOR, 0, INTERFACE, 1), Fails>>,
      <<Request(DIRECTION_DEVICE_TO_HOST, GET_STATUS, 0, 0, MaxAnswer), Fails>>,
      <<Request(DIRECTION_DEVICE_TO_HOST, CLEAR_FEATURE, 0, 0, 1), Fails>>,
      <<Request(DIRECTION_DEVICE_TO_HOST, CLEAR_FEATURE, 0, 0, 1), Stores(MaxAnswer)>> }

\* request data shorter than a request
ShortCall == <<Request(0, SET_ADDRESS, 1, 0, 0), Fails>>

\* The object after construction: _setupData is built by its constructor,
\* the other fields are not initialised
InitUsb ==
    /\ OthersAtRest
    /\ TimersAtRest
    /\ ServicesAtRest
    /\ \E state \in StateEnum, garbage \in {0, 1} :
          usb = [UsbIdle EXCEPT !.state = state, !.Current_Configuration = garbage,
                                !.DeviceAddress = garbage]

\* the observations a call on the object leaves behind
UsbObserve(request, result, events) ==
    /\ pc = "idle"
    /\ calls < MaxCalls
    /\ calls' = calls + 1
    /\ pc' = "returned"
    /\ call' = request
    /\ ret' = result
    /\ out' = <<>>
    /\ log' = events
    /\ UNCHANGED cacheVars
    /\ UNCHANGED storageVars
    /\ UNCHANGED timerVars
    /\ UNCHANGED serviceVars

setupRequest(len, request, v) ==
    \E c \in {UsbSetupRequest(UsbCtx(usb), len, request, v)} :
        /\ UsbObserve([op |-> "setupRequest", len |-> len, request |-> request, v |-> v,
                       usb |-> usb], c.ret, c.log)
        /\ usb' = c.u

controlEPOutgoingData(maxPacket) ==
    IF hasData(usb.setupData)
    THEN \E rest \in OutgoingRest(usb, maxPacket) :
            /\ UsbObserve([op |-> "controlEPOutgoingData", maxPacket |-> maxPacket,
                           data |-> OutgoingChunk(usb, maxPacket), usb |-> usb], TRUE, <<>>)
            /\ usb' = [usb EXCEPT !.setupData = rest]
    ELSE /\ UsbObserve([op |-> "controlEPOutgoingData", maxPacket |-> maxPacket,
                        data |-> NullData, usb |-> usb], FALSE, <<>>)
         /\ usb' = usb

reset ==
    \E c \in {UsbReset(UsbCtx(usb))} :
        /\ UsbObserve([op |-> "reset", usb |-> usb], TRUE, c.log)
        /\ usb' = c.u

suspended ==
    \E c \in {UsbSuspended(UsbCtx(usb))} :
        /\ UsbObserve([op |-> "suspended", usb |-> usb], TRUE, c.log)
        /\ usb' = c.u

wakeUp ==
    \E c \in {UsbWakeUp(UsbCtx(usb))} :
        /\ UsbObserve([op |-> "wakeUp", usb |-> usb], TRUE, c.log)
        /\ usb' = c.u

NextUsb ==
    \/ \E r \in SetupCalls : setupRequest(RequestSize, r[1], r[2])
    \/ setupRequest(RequestSize - 1, ShortCall[1], ShortCall[2])
    \/ \E maxPacket \in 1..MaxPacket : controlEPOutgoingData(maxPacket)
    \/ reset
    \/ suspended
    \/ wakeUp
    \/ PlainReturn

SpecUsb == InitUsb /\ [][NextUsb]_vars

----------------------------------------------------------------------------
\* Observations of the call that has just returned
Returned(op) == pc = "returned" /\ call.op = op

\* the byte at address a lies in the span [address, address+len) of the call
InSpan(a) == a >= call.address /\ a < call.address + call.len

\* the request lies inside one page
OnePage == PageStart(call.address) + PAGE_SIZE >= call.address + call.len

\* the page starting at q is covered by the request in part: never the whole
\* page, and at least one byte, or the empty request that starts in it
PartPage(q) ==
    /\ \E a \in q..(q + PAGE_SIZE - 1) : ~InSpan(a)
    /\ \/ \E a \in q..(q + PAGE_SIZE - 1) : InSpan(a)
       \/ call.len = 0 /\ q = PageStart(call.address)

\* the page starting at q was resident when the call was made
WasResident(q) == pre.status # "Empty" /\ pre.addr = q

\* the events of one kind, in order
Events(op) == SelectSeq(log, LAMBDA e : e.op = op)

\* what a GetData issued now, with a store that does not fail, would return
ReadBack(address, len) == GetDataLoop(Ctx(0), address, len)

\* C1: with a backing store that never fails, a SetData(data, address, len)
\* with len >= 1 followed immediately by GetData(out, address, len) returns
\* true with out = data.
C1_RoundTrip ==
    (Returned("SetData") /\ call.len >= 1 /\ ret) =>
        /\ ReadBack(call.address, call.len).ok
        /\ ReadBack(call.address, call.len).out = call.data

\* C2: when SetData writes only part of a page that was not resident, every
\* byte of that page outside the written span reads back through GetData,
\* and is in the store after the next successful Flush, with the value the
\* store held for it before the call.
C2_NeighboursKept ==
    (Returned("SetData") /\ ret) =>
        \A a \in Addresses :
            (PartPage(PageStart(a)) /\ ~InSpan(a) /\ ~WasResident(PageStart(a))) =>
                /\ ReadBack(a, 1).ok
                /\ ReadBack(a, 1).out = <<pre.mem[a]>>
                /\ FlushCtx(Ctx(0), FALSE).ok
                /\ FlushCtx(Ctx(0), FALSE).mem[a] = pre.mem[a]

\* a write that starts inside a page that was not resident: the bytes before
\* it were read from the store into the buffer
C2_Witness ==
    /\ Returned("SetData") /\ ret
    /\ call.len >= 1 /\ call.address % PAGE_SIZE # 0
    /\ ~WasResident(PageStart(call.address))
    /\ Len(Events("Read")) >= 1
    /\ m_Status = "Dirty" /\ m_Address = PageStart(call.address)
    /\ m_Buffer[0] = pre.mem[m_Address] /\ m_Buffer[0] # pre.buf[0]

\* the whole buffer, as the bytes a whole-page Write passes
WholeBuffer(buf) == BufBytes(buf, 0, PAGE_SIZE)

\* C3: a SetData whose span lies inside one page and is shorter than
\* PAGE_SIZE never writes its own bytes to the store; the only Write it
\* issues is one whole-page Write of the Dirty resident page, when that is
\* another page than the target, before any Read and before the buffer
\* changes; on success the target page is resident and Dirty and holds the
\* written bytes.
C3_DeferredWrite ==
    (Returned("SetData") /\ OnePage /\ call.len < PAGE_SIZE) =>
        LET q == PageStart(call.address)
            evicts == pre.status = "Dirty" /\ pre.addr # q
        IN  /\ Len(Events("Write")) = (IF evicts THEN 1 ELSE 0)
            /\ \A i \in 1..Len(log) :
                 log[i].op = "Write" =>
                    /\ log[i].src = "m_Buffer"
                    /\ log[i].address = pre.addr
                    /\ log[i].len = PAGE_SIZE
                    /\ log[i].data = WholeBuffer(pre.buf)
                    /\ \A j \in 1..(i - 1) : log[j].op = "Hook"
                    /\ log[i].ok =>
                         \A a \in Addresses :
                            mem[a] = IF PageStart(a) = pre.addr
                                     THEN pre.buf[a % PAGE_SIZE] ELSE pre.mem[a]
            /\ (\A i \in 1..Len(log) : log[i].op = "Write" => ~log[i].ok) => mem = pre.mem
            /\ \A a \in q..(q + PAGE_SIZE - 1) : mem[a] = pre.mem[a]
            /\ ret =>
                 /\ m_Status = "Dirty"
                 /\ m_Address = q
                 /\ \A a \in Addresses :
                       InSpan(a) => m_Buffer[a % PAGE_SIZE] = call.data[a - call.address + 1]

\* a one-byte write to a page while another page is resident and Dirty
C3_Witness ==
    /\ Returned("SetData") /\ OnePage /\ call.len = 1 /\ ret
    /\ pre.status = "Dirty" /\ pre.addr # PageStart(call.address)
    /\ Len(Events("Write")) = 1 /\ Len(Events("Read")) = 1
    /\ mem[call.address] # call.data[1]

\* C4: Flush while Dirty calls the supplied hook once and before the Write,
\* issues one Write of the whole buffer at the resident address, and on a
\* successful Write sets the status to Empty; no call invokes the hook while
\* the status is not Dirty.
C4_FlushDirty ==
    /\ (Returned("Flush") /\ pre.status = "Dirty") =>
          /\ Len(Events("Hook")) = (IF call.cb THEN 1 ELSE 0)
          /\ Len(Events("Write")) = 1
          /\ Len(log) = Len(Events("Hook")) + 1
          /\ log[Len(log)].op = "Write"
          /\ log[Len(log)].src = "m_Buffer"
          /\ log[Len(log)].address = pre.addr
          /\ log[Len(log)].len = PAGE_SIZE
          /\ log[Len(log)].data = WholeBuffer(pre.buf)
          /\ log[Len(log)].ok => (ret /\ m_Status = "Empty")
    /\ \A i \in 1..Len(log) : log[i].op = "Hook" => log[i].status = "Dirty"

\* a successful Flush of a Dirty page with a hook supplied
C4_Witness ==
    /\ Returned("Flush") /\ pre.status = "Dirty" /\ call.cb /\ ret
    /\ Len(log) = 2 /\ m_Status = "Empty"
    /\ \E a \in Addresses : mem[a] # pre.mem[a]

\* C5: if the Write issued by Flush fails, Flush returns false, the status
\* stays Dirty, the resident address and the buffer are unchanged and no
\* second Write is attempted.
C5_FlushWriteFails ==
    (Returned("Flush") /\ \E i \in 1..Len(log) : log[i].op = "Write" /\ ~log[i].ok) =>
        /\ ~ret
        /\ m_Status = "Dirty"
        /\ m_Address = pre.addr
        /\ m_Buffer = pre.buf
        /\ Len(Events("Write")) = 1

\* a Flush of a Dirty page whose Write failed
C5_Witness ==
    /\ Returned("Flush") /\ ~ret /\ pre.status = "Dirty"
    /\ Len(Events("Write")) = 1 /\ ~Events("Write")[1].ok

\* C6: if the Write that evicts the Dirty resident page fails, SetData
\* returns false at once: that Write is its last backing call, the status is
\* still Dirty, the resident address and the buffer are those of the failed
\* Write (the bytes for the new page are not merged; when no earlier piece
\* of the request used the buffer they are those from before the call), and
\* the whole pages written directly earlier in the call stay written.
C6_EvictionFails ==
    (Returned("SetData")
       /\ \E i \in 1..Len(log) : log[i].op = "Write" /\ log[i].src = "m_Buffer" /\ ~log[i].ok) =>
        LET last == log[Len(log)]
        IN  /\ last.op = "Write" /\ last.src = "m_Buffer" /\ ~last.ok
            /\ ~ret
            /\ m_Status = "Dirty"
            /\ m_Address = last.address
            /\ WholeBuffer(m_Buffer) = last.data
            /\ (/\ ~WasResident(PageStart(call.address))
                /\ \A j \in 1..(Len(log) - 1) : log[j].src = "data" \/ log[j].op = "Hook") =>
                   (pre.status = "Dirty" /\ m_Address = pre.addr /\ m_Buffer = pre.buf)
            /\ \A j \in 1..(Len(log) - 1) :
                   (log[j].op = "Write" /\ log[j].src = "data") =>
                       (log[j].ok /\ MemBytes(mem, log[j].address, PAGE_SIZE) = log[j].data)

\* a whole page written directly, then a failed eviction in the same call
C6_Witness ==
    /\ Returned("SetData") /\ ~ret /\ Len(log) = 2
    /\ log[1].op = "Write" /\ log[1].src = "data" /\ log[1].ok
    /\ log[2].op = "Write" /\ log[2].src = "m_Buffer" /\ ~log[2].ok
    /\ MemBytes(pre.mem, log[1].address, PAGE_SIZE) # log[1].data

\* C7: SetData of a span that starts page-aligned and whose len is a
\* non-zero multiple of PAGE_SIZE issues only whole-page Writes of the
\* caller's data in ascending address order (len/PAGE_SIZE of them when none
\* fails), no Read and no hook call, and leaves status, resident address and
\* buffer unchanged.
C7_FullPageBypass ==
    (Returned("SetData") /\ call.address % PAGE_SIZE = 0
       /\ call.len >= PAGE_SIZE /\ call.len % PAGE_SIZE = 0) =>
        /\ m_Status = pre.status /\ m_Address = pre.addr /\ m_Buffer = pre.buf
        /\ \A i \in 1..Len(log) :
              /\ log[i].op = "Write" /\ log[i].src = "data"
              /\ log[i].address = call.address + (i - 1) * PAGE_SIZE
              /\ log[i].len = PAGE_SIZE
              /\ log[i].data = Slice(call.data, (i - 1) * PAGE_SIZE, PAGE_SIZE)
              /\ i < Len(log) => log[i].ok
        /\ Len(log) >= 1 /\ ret = log[Len(log)].ok
        /\ ret => Len(log) = call.len \div PAGE_SIZE
        /\ ret => MemBytes(mem, call.address, call.len) = call.data

\* two whole pages written directly while a page is resident and Dirty
C7_Witness ==
    /\ Returned("SetData") /\ ret /\ call.address % PAGE_SIZE = 0
    /\ call.len = 2 * PAGE_SIZE /\ pre.status = "Dirty" /\ Len(log) = 2

\* C8: GetData never changes status, resident address or buffer, never
\* issues a Write and never calls the hook; a Dirty page is neither discarded
\* nor flushed by a read of another page.
C8_GetDataFrame ==
    Returned("GetData") =>
        /\ m_Status = pre.status /\ m_Address = pre.addr /\ m_Buffer = pre.buf
        /\ mem = pre.mem
        /\ \A i \in 1..Len(log) : log[i].op = "Read" /\ log[i].src = "data"

\* a read of another page while a page is resident and Dirty
C8_Witness ==
    /\ Returned("GetData") /\ ret /\ call.len >= 1
    /\ pre.status = "Dirty" /\ pre.addr # PageStart(call.address)
    /\ Len(log) >= 1

\* the pieces, one per page, GetData cuts the request (address, len) into
RECURSIVE Pieces(_, _)
Pieces(address, len) ==
    LET n == Min(PAGE_SIZE - (address % PAGE_SIZE), len)
    IN  <<[address |-> address, len |-> n]>>
           \o (IF len - n > 0 THEN Pieces(address + n, len - n) ELSE <<>>)

\* C9: GetData returns for each requested byte the buffer byte at its in-page
\* offset when the status is not Empty and the byte's page is the resident
\* page, and otherwise the byte a direct Read of that page piece delivers; it
\* issues a Read for exactly the pieces that are not resident, and returns
\* false when a Read fails.
C9_GetDataValue ==
    Returned("GetData") =>
        LET direct == SelectSeq(Pieces(call.address, call.len),
                                LAMBDA p : ~WasResident(PageStart(p.address)))
        IN  /\ ret =>
                 /\ Len(out) = call.len
                 /\ \A i \in 1..call.len :
                       out[i] = IF WasResident(PageStart(call.address + i - 1))
                                THEN pre.buf[(call.address + i - 1) % PAGE_SIZE]
                                ELSE pre.mem[call.address + i - 1]
                 /\ Len(log) = Len(direct)
            /\ Len(log) <= Len(direct)
            /\ \A i \in 1..Len(log) :
                  /\ log[i].op = "Read"
                  /\ log[i].address = direct[i].address
                  /\ log[i].len = direct[i].len
                  /\ log[i].ok => log[i].data = MemBytes(pre.mem, log[i].address, log[i].len)
                  /\ i < Len(log) => log[i].ok
            /\ ret = (\A i \in 1..Len(log) : log[i].ok)

\* a read that takes not yet flushed bytes from the buffer and the bytes of
\* another page from the store
C9_Witness ==
    /\ Returned("GetData") /\ ret /\ Len(log) >= 1
    /\ \E i \in 1..call.len :
          /\ WasResident(PageStart(call.address + i - 1))
          /\ out[i] # pre.mem[call.address + i - 1]

\* C10: Flush while the status is not Dirty returns true, issues no Write
\* and no Read, does not call the hook and leaves status, resident address
\* and buffer unchanged.
C10_FlushNotDirty ==
    (Returned("Flush") /\ pre.status # "Dirty") =>
        /\ ret
        /\ log = <<>>
        /\ m_Status = pre.status /\ m_Address = pre.addr /\ m_Buffer = pre.buf
        /\ mem = pre.mem

\* a Flush with a hook supplied on an Empty slot
C10_Witness ==
    /\ Returned("Flush") /\ pre.status = "Empty" /\ call.cb
    /\ calls = 2

\* a successful whole-page Write of the buffer at the address that was
\* resident when the call was made
FlushedInCall ==
    \E i \in 1..Len(log) :
        /\ log[i].op = "Write" /\ log[i].src = "m_Buffer" /\ log[i].ok
        /\ log[i].address = pre.addr /\ log[i].len = PAGE_SIZE

\* C11 (as claimed): no public call takes a Dirty slot to Empty unless a
\* whole-page Write of the resident buffer returned true in that call, and
\* Clear only ever acts on an Empty slot, as the transition Empty -> Empty.
C11_OnlyFlushEmpties ==
    /\ (pc = "returned" /\ pre.status = "Dirty" /\ m_Status = "Empty") => FlushedInCall
    /\ Returned("Clear") => pre.status = "Empty"

\* C11 (amended): no SetData, GetData or Flush call takes a Dirty slot to
\* Empty unless a whole-page Write of the resident buffer returned true in
\* that call; Clear sets the status to Empty from any status, makes no
\* backing call and leaves address, buffer and store as they are.
C11_FlushOrClearEmpties ==
    /\ (pc = "returned" /\ call.op # "Clear" /\ pre.status = "Dirty" /\ m_Status = "Empty")
          => FlushedInCall
    /\ Returned("Clear") =>
          /\ m_Status = "Empty" /\ log = <<>> /\ ret
          /\ m_Address = pre.addr /\ m_Buffer = pre.buf /\ mem = pre.mem

\* a SetData that evicted the Dirty page with success and then failed to
\* read the new page: the slot is left Empty
C11_Witness ==
    /\ Returned("SetData") /\ ~ret
    /\ pre.status = "Dirty" /\ m_Status = "Empty"
    /\ Len(Events("Write")) = 1 /\ Len(Events("Read")) = 1

\* C12: in every reachable state the status is Empty or Dirty; no sequence
\* of SetData, GetData, Flush and Clear calls, with or without backing
\* failures, produces the status HasData.
C12_NoHasData == m_Status \in {"Empty", "Dirty"}

\* a successful Flush of a Dirty page: the buffer still holds the bytes of
\* the page just written, and the status is Empty
C12_Witness ==
    /\ Returned("Flush") /\ ret /\ pre.status = "Dirty"
    /\ m_Status = "Empty"
    /\ MemBytes(mem, m_Address, PAGE_SIZE) = WholeBuffer(m_Buffer)

\* the byte number i of the request was delivered by a backing Read
ReadDirect(i) ==
    \E j \in 1..Len(log) :
        /\ log[j].op = "Read"
        /\ call.address + i - 1 >= log[j].address
        /\ call.address + i - 1 < log[j].address + log[j].len

\* C13: whenever the status is not Empty the resident address is a
\* multiple of PAGE_SIZE; every Write of the buffer is one whole page at a
\* page start (for Flush: at the resident address); and every byte GetData
\* delivers without a backing Read lies in [m_Address, m_Address + PAGE_SIZE)
\* and is the buffer byte at its offset from m_Address.
C13_OnePageAligned ==
    /\ m_Status # "Empty" => m_Address % PAGE_SIZE = 0
    /\ \A i \in 1..Len(log) :
          (log[i].op = "Write" /\ log[i].src = "m_Buffer") =>
              /\ log[i].address % PAGE_SIZE = 0
              /\ log[i].len = PAGE_SIZE
              /\ Returned("Flush") => log[i].address = pre.addr
    /\ (Returned("GetData") /\ ret) =>
          \A i \in 1..call.len :
              ~ReadDirect(i) =>
                  /\ pre.status # "Empty"
                  /\ call.address + i - 1 >= pre.addr
                  /\ call.address + i - 1 < pre.addr + PAGE_SIZE
                  /\ out[i] = pre.buf[call.address + i - 1 - pre.addr]

\* a write at an address inside a page made that page resident at its start
C13_Witness ==
    /\ Returned("SetData") /\ ret /\ call.len >= 1
    /\ call.address % PAGE_SIZE # 0 /\ call.address > PAGE_SIZE
    /\ m_Status = "Dirty" /\ m_Address = PageStart(call.address)

----------------------------------------------------------------------------
\* Observations of a storage call that has just returned; the validators and
\* the reader leave the device as it was, so spre.dev is the device they saw
ReadFailed == \E i \in 1..Len(log) : log[i].op = "Read" /\ ~log[i].ok

\* the fields of the single-region header at address on the device dev
MagicAt(dev, address) == DeviceBytes(dev, address, UuidSize)
DataIdAt(dev, address) == DeviceBytes(dev, address + DataUuidOffset, UuidSize)
LengthAt(dev, address) == DeviceBytes(dev, address + LengthOffset, width)
CrcAt(dev, address) == DeviceBytes(dev, address + StorageCrcOffset(width), CrcSize)
\* the n bytes that follow the header
PayloadAt(dev, address, n) == DeviceBytes(dev, address + StorageHeaderSize(width), n)

\* a width that holds every Length and every sum of two unsigned ints
WideSize == 2 * UIntSize + 1

\* C14: IsStorageCorrect(address, uuid) returns NoStorage when the 16 bytes
\* at address differ from StorageUUID; else AnotherStorage when the DataId
\* field differs from uuid; else DeviceError when the read of Length or of
\* Crc fails; else StorageError when the stored Crc differs from the CRC
\* over Length payload bytes right after the header; else Ok.
C14_Precedence ==
    Returned("IsStorageCorrect") =>
        ret = IF MagicAt(spre.dev, call.address) # StorageUUID THEN "NoStorage"
              ELSE IF DataIdAt(spre.dev, call.address) # call.uuid THEN "AnotherStorage"
              ELSE IF ReadFailed THEN "DeviceError"
              ELSE IF CrcAt(spre.dev, call.address)
                        # CrcOf(PayloadAt(spre.dev, call.address,
                                          ToNat(LengthAt(spre.dev, call.address))))
                   THEN "StorageError"
              ELSE "Ok"

\* the mathematical sum offset + len exceeds the stored Length
BeyondLength ==
    Greater(AddUnsigned(Resize(call.len, WideSize), Resize(call.offset, WideSize)),
            Resize(LengthAt(spre.dev, spre.reader), WideSize))

\* C17: GetData(data, len, offset) returns false and reads no payload
\* whenever offset + len, as a mathematical sum, exceeds the stored Length,
\* also when the sum does not fit an unsigned int, and whenever the Length
\* field cannot be read.
C17_OutOfBound ==
    (Returned("Reader.GetData") /\ (BeyondLength \/ ~log[1].ok)) =>
        /\ ret = FALSE
        /\ Len(log) = 1
        /\ out = <<>>

\* C18: when offset + len <= Length and the device reads succeed, GetData
\* stores exactly len bytes into the caller's buffer: the device bytes at
\* m_Address + sizeof(header) + offset.
C18_PayloadBytes ==
    (Returned("Reader.GetData") /\ ~BeyondLength /\ ~ReadFailed) =>
        /\ ret = TRUE
        /\ out = PayloadAt(spre.dev, spre.reader + ToNat(call.offset), ToNat(call.len))

\* C19: after a successful SetData(data, len, crc) with crc the checksum of
\* data, IsStorageCorrect(writer address, writer uuid) returns Ok and the
\* device holds StorageUUID, the writer's uuid, Length = len in the width of
\* its field, Crc = crc and then the len bytes of data, for every width of
\* the Length field.
C19_WriteCheckRoundTrip ==
    (Returned("Writer.SetData") /\ ret = TRUE /\ call.crcOk) =>
        /\ IsStorageCorrectCtx(StorageCtx(reader_Address, 0), call.address, call.uuid).res = "Ok"
        /\ MagicAt(device, call.address) = StorageUUID
        /\ DataIdAt(device, call.address) = call.uuid
        /\ LengthAt(device, call.address) = ToBytes(call.len, width)
        /\ CrcAt(device, call.address) = CrcOf(call.data)
        /\ PayloadAt(device, call.address, call.len) = call.data

\* the fields of the page header at address on the device dev
TotalLengthAt(dev, address) == DeviceBytes(dev, address + TotalLengthOffset, LengthSize)
PageOffsetAt(dev, address) == DeviceBytes(dev, address + PageOffsetOffset, LengthSize)
PageLengthAt(dev, address) == DeviceBytes(dev, address + PageLengthOffset, LengthSize)
PageCrcAt(dev, address) == DeviceBytes(dev, address + PageCrcOffset, CrcSize)
\* the n bytes that follow the page header
PagePayloadAt(dev, address, n) == DeviceBytes(dev, address + PageHeaderSize, n)

\* the three size invariants of a page header for a page of pageLen bytes
SizesOk(total, offset, length, pageLen) ==
    /\ ToNat(length) <= ToNat(pageLen) - PageHeaderSize
    /\ ToNat(length) <= ToNat(total)
    /\ ToNat(offset) <= ToNat(total)

C16_AddressOnlyOnOk ==
    /\ Returned("IsStorageCorrect") =>
          /\ reader_Address = (IF ret = "Ok" THEN call.address ELSE spre.reader)
          /\ page_Address = spre.page
          /\ device = spre.dev
          /\ \A i \in 1..Len(log) : log[i].op = "Read"
    /\ Returned("isPageCorrect") =>
          /\ page_Address = (IF ret = "Ok" THEN call.address ELSE spre.page)
          /\ reader_Address = spre.reader
          /\ device = spre.dev
          /\ \A i \in 1..Len(log) : log[i].op = "Read"

\* a page found correct at another address than the active one
C16_Witness ==
    /\ Returned("isPageCorrect") /\ ret = "Ok"
    /\ spre.page # call.address /\ page_Address = call.address
    /\ ~call.options.DontCheckMetrics /\ ~call.options.DontCheckCrc

\* C20: after a successful SetHeader(metrics) at m_Address whose PageCrc is
\* the CRC of the PageLength payload bytes that lie after the header,
\* isPageCorrect(m_Address, pageLen) with default options returns Ok for
\* every pageLen with PageLength <= pageLen - header size, provided
\* PageLength <= TotalLength and PageOffset <= TotalLength, and getMetrics
\* reads back the four metric values written.
C20_PageRoundTrip ==
    (Returned("SetHeader") /\ ret = TRUE /\ call.crcOk) =>
        /\ \A pageLen \in PageLens :
              SizesOk(call.metrics.TotalLength, call.metrics.PageOffset,
                      call.metrics.PageLength, pageLen) =>
                 isPageCorrectCtx(StorageCtx(page_Address, 0), PageUuid, page_Address, pageLen,
                                  [DontCheckCrc |-> FALSE, DontCheckMetrics |-> FALSE]).res = "Ok"
        /\ getMetrics(StorageCtx(page_Address, 0), page_Address).ok
        /\ getMetrics(StorageCtx(page_Address, 0), page_Address).TotalLength
              = call.metrics.TotalLength
        /\ getMetrics(StorageCtx(page_Address, 0), page_Address).PageOffset
              = call.metrics.PageOffset
        /\ getMetrics(StorageCtx(page_Address, 0), page_Address).PageLength
              = call.metrics.PageLength
        /\ getMetrics(StorageCtx(page_Address, 0), page_Address).PageCrc
              = call.metrics.PageCrc

\* a header written over an erased page, after the payload of the page
C20_Witness ==
    /\ Returned("SetHeader") /\ ret = TRUE /\ call.crcOk
    /\ MagicAt(spre.dev, page_Address) # PageStorageUUID
    /\ ToNat(call.metrics.PageLength) >= 1
    /\ ToNat(call.metrics.PageLength) <= ToNat(call.metrics.TotalLength)
    /\ PagePayloadAt(device, page_Address, 1) # <<255>>

----------------------------------------------------------------------------
\* the device dev with the byte at address replaced by v
WithByte(dev, address, v) == [dev EXCEPT ![address + 1] = v]

\* the changes of one byte: each of its bits flipped, and all of them
Changes == {1, 2, 4, 8, 16, 32, 64, 128, 255}
Changed(b, d) == (b + d) % 256

\* the payload data with its byte number i changed by d has another checksum
\* than data: the checksum function tells the two apart
Distinguished(data, i, d) == CrcOf([data EXCEPT ![i] = Changed(data[i], d)]) # CrcOf(data)

\* result and m_Address after a validator call
Verdict(c) == <<c.res, c.addr>>

\* IsStorageCorrect(call.address, call.uuid), by a reader whose m_Address is
\* active, over the device whose payload byte number i is changed by d
CheckChangedRegion(active, i, d) ==
    IsStorageCorrectCtx(
        CtxOver(WithByte(device, call.address + StorageHeaderSize(width) + i - 1,
                         Changed(call.data[i], d)),
                width, active, 0),
        call.address, call.uuid)

\* isPageCorrect(page_Address, pageLen) with default options, by a page
\* object whose m_Address is active, over the device whose payload byte
\* number i is changed by d
CheckChangedPage(active, pageLen, i, d) ==
    isPageCorrectCtx(
        CtxOver(WithByte(device, page_Address + PageHeaderSize + i - 1,
                         Changed(PagePayloadAt(device, page_Address, i)[i], d)),
                width, active, 0),
        PageUuid, page_Address, pageLen, DefaultOptions)

\* C21: after a successful SetData whose crc is the checksum of the data,
\* IsStorageCorrect over the device with any one payload byte changed so
\* that the checksum tells it apart returns StorageError; after a successful
\* SetHeader whose PageCrc is the checksum of the page's payload and whose
\* sizes fit, isPageCorrect with default options over such a device returns
\* Error; both leave the object's m_Address as it was.
C21_CorruptionDetected ==
    /\ (Returned("Writer.SetData") /\ ret = TRUE /\ call.crcOk) =>
          \A i \in 1..call.len, d \in Changes, active \in Bases :
              Distinguished(call.data, i, d) =>
                  Verdict(CheckChangedRegion(active, i, d)) = <<"StorageError", active>>
    /\ (Returned("SetHeader") /\ ret = TRUE /\ call.crcOk) =>
          \A pageLen \in PageLens, active \in Bases :
              SizesOk(call.metrics.TotalLength, call.metrics.PageOffset,
                      call.metrics.PageLength, pageLen) =>
                 \A i \in 1..ToNat(call.metrics.PageLength), d \in Changes :
                     Distinguished(PagePayloadAt(device, page_Address,
                                                 ToNat(call.metrics.PageLength)), i, d) =>
                         Verdict(CheckChangedPage(active, pageLen, i, d)) = <<"Error", active>>

\* a region of two payload bytes written through an 8-byte ADDRESS_TYPE, and
\* a reader whose active address is another one: the region is found correct
\* as written and in error with one bit of its last byte flipped
C21_Witness ==
    /\ Returned("Writer.SetData") /\ ret = TRUE /\ call.crcOk
    /\ call.len = MaxLen /\ width = 2 * UIntSize
    /\ reader_Address # call.address
    /\ IsStorageCorrectCtx(StorageCtx(reader_Address, 0), call.address, call.uuid).res = "Ok"
    /\ Distinguished(call.data, MaxLen, 1)
    /\ CheckChangedRegion(reader_Address, MaxLen, 1).res = "StorageError"

\* the page header at call.address, as the call saw it
SizesHold ==
    SizesOk(TotalLengthAt(spre.dev, call.address), PageOffsetAt(spre.dev, call.address),
            PageLengthAt(spre.dev, call.address), call.pageLen)
CrcHolds ==
    PageCrcAt(spre.dev, call.address)
        = CrcOf(PagePayloadAt(spre.dev, call.address,
                              ToNat(PageLengthAt(spre.dev, call.address))))

----------------------------------------------------------------------------
\* the device after the successful writes among the first n events
RECURSIVE AfterWrites(_, _, _)
AfterWrites(dev, events, n) ==
    IF n = 0 THEN dev
    ELSE IF events[n].op = "Write" /\ events[n].ok
         THEN [i \in DeviceIndexes |->
                 IF i > events[n].address /\ i <= events[n].address + events[n].len
                 THEN events[n].data[i - events[n].address]
                 ELSE AfterWrites(dev, events, n - 1)[i]]
         ELSE AfterWrites(dev, events, n - 1)

\* every event is a Write and all but the last one succeeded
WritesUntilFailure ==
    \A i \in 1..Len(log) : log[i].op = "Write" /\ (i < Len(log) => log[i].ok)

\* the event number i, if issued, is a Write of len bytes data at address
WriteIs(i, address, len, data) ==
    i <= Len(log) =>
        /\ log[i].address = address /\ log[i].len = len /\ log[i].data = data

\* the crc argument of the SetData call
CrcPassed ==
    IF call.crcOk THEN CrcOf(call.data)
    ELSE AddUnsigned(CrcOf(call.data), ToBytes(1, CrcSize))

\* C23: SetData issues its writes in the order magic (offset 0), DataId
\* (offset 16), Length, Crc, payload (offset header size); a failing write
\* is the last one issued and makes the result false; the result is true
\* exactly when five writes were issued and succeeded; the device holds
\* what the successful writes stored.
C23_FiveWritesInOrder ==
    Returned("Writer.SetData") =>
        /\ Len(log) \in 1..5
        /\ WritesUntilFailure
        /\ WriteIs(1, call.address, UuidSize, StorageUUID)
        /\ WriteIs(2, call.address + DataUuidOffset, UuidSize, call.uuid)
        /\ Len(log) >= 3 =>
              /\ log[3].address = call.address + LengthOffset
              /\ ToNat(log[3].data) = call.len
        /\ WriteIs(4, call.address + StorageCrcOffset(width), CrcSize, CrcPassed)
        /\ WriteIs(5, call.address + StorageHeaderSize(width), call.len, call.data)
        /\ ret = (Len(log) = 5 /\ log[5].ok)
        /\ device = AfterWrites(spre.dev, log, Len(log))
        /\ Len(log) >= 2 => MagicAt(device, call.address) = StorageUUID
        /\ Len(log) >= 3 => DataIdAt(device, call.address) = call.uuid

\* the write of the Crc field fails on an erased device: magic, DataId and
\* Length stay written, no payload write is issued
C23_Witness ==
    /\ Returned("Writer.SetData") /\ ret = FALSE
    /\ Len(log) = 4 /\ ~log[4].ok
    /\ MagicAt(spre.dev, call.address) # StorageUUID
    /\ MagicAt(device, call.address) = StorageUUID
    /\ call.len = MaxLen
    /\ PayloadAt(device, call.address, MaxLen) # call.data

\* C24: SetHeader issues its writes at m_Address in the order page magic,
\* DataId, TotalLength, PageOffset, PageLength, PageCrc, each one field at
\* its packed header offset; a failing write is the last one issued and
\* makes the result false; the result is true exactly when six writes were
\* issued and succeeded; the device holds what the successful writes stored.
C24_SixWritesInOrder ==
    Returned("SetHeader") =>
        /\ Len(log) \in 1..6
        /\ WritesUntilFailure
        /\ WriteIs(1, spre.page, UuidSize, PageStorageUUID)
        /\ WriteIs(2, spre.page + UuidSize, UuidSize, PageUuid)
        /\ WriteIs(3, spre.page + 2 * UuidSize, LengthSize, call.metrics.TotalLength)
        /\ WriteIs(4, spre.page + 2 * UuidSize + LengthSize, LengthSize,
                   call.metrics.PageOffset)
        /\ WriteIs(5, spre.page + 2 * UuidSize + 2 * LengthSize, LengthSize,
                   call.metrics.PageLength)
        /\ WriteIs(6, spre.page + 2 * UuidSize + 3 * LengthSize, CrcSize,
                   call.metrics.PageCrc)
        /\ ret = (Len(log) = 6 /\ log[6].ok)
        /\ device = AfterWrites(spre.dev, log, Len(log))
        /\ page_Address = spre.page

\* the write of PageLength fails over an erased page: the fields before it
\* are on the device, PageLength and PageCrc are as they were
C24_Witness ==
    /\ Returned("SetHeader") /\ ret = FALSE
    /\ Len(log) = 5 /\ ~log[5].ok
    /\ MagicAt(spre.dev, page_Address) # PageStorageUUID
    /\ MagicAt(device, page_Address) = PageStorageUUID
    /\ PageOffsetAt(device, page_Address) = call.metrics.PageOffset
    /\ ToNat(call.metrics.PageOffset) = MaxLen
    /\ PageLengthAt(device, page_Address) = PageLengthAt(spre.dev, page_Address)
    /\ PageLengthAt(device, page_Address) # call.metrics.PageLength

----------------------------------------------------------------------------
\* C25: UUID::IsEqual(a, b) returns false when a or b is null; otherwise it
\* returns true exactly when the 16 bytes of a and of b are equal; on
\* non-null arguments it is reflexive and symmetric.
C25_IsEqual ==
    Returned("IsEqual") =>
        /\ (call.o1.null \/ call.o2.null) => ret = FALSE
        /\ (~call.o1.null /\ ~call.o2.null) =>
              /\ ret = (\A i \in 1..16 : call.o1.bytes[i] = call.o2.bytes[i])
              /\ UUID_IsEqual(call.o1, call.o1) = TRUE
              /\ UUID_IsEqual(call.o2, call.o1) = ret

\* two identifiers that differ in their last byte only
C25_Witness ==
    /\ Returned("IsEqual") /\ ret = FALSE
    /\ ~call.o1.null /\ ~call.o2.null
    /\ \A i \in 1..15 : call.o1.bytes[i] = call.o2.bytes[i]
    /\ call.o1.bytes[16] # call.o2.bytes[16]

----------------------------------------------------------------------------
\* C26: Start(interval, state) with restart = false on a timer that is
\* enabled changes nothing; on a disabled timer, or with restart = true, it
\* sets Interval = interval, TimeStamp = SystemTime + interval (in 32 bits)
\* and Enabled = true and leaves the other timers alone; with a null state
\* nothing changes.
C26_StartFrame ==
    Returned("Start") =>
        /\ SystemTime = call.time
        /\ call.state = NullState => timers = call.timers
        /\ call.state # NullState =>
              /\ \A t \in TimerIds \ {call.state} : timers[t] = call.timers[t]
              /\ (~call.restart /\ call.timers[call.state].Enabled)
                    => timers[call.state] = call.timers[call.state]
              /\ (call.restart \/ ~call.timers[call.state].Enabled) =>
                    /\ timers[call.state].Interval = call.interval
                    /\ timers[call.state].TimeStamp = AddUnsigned(call.time, call.interval)
                    /\ timers[call.state].Enabled = TRUE

\* a Start without restart, with another interval, of a timer that is running
C26_Witness ==
    /\ Returned("Start") /\ call.state # NullState /\ ~call.restart
    /\ call.timers[call.state].Enabled
    /\ call.timers[call.state].Interval # call.interval
    /\ call.time # ZeroTime
    /\ timers = call.timers

----------------------------------------------------------------------------
\* the name of the call is the Name of a table entry whose service was
\* enabled when the call was made
NamedAndEnabled ==
    \E i \in ServiceIds : call.name = i /\ call.services[i].Enabled

\* C27: Services::SetState(name, bits, mask) and SetLocalState(name, bits)
\* return false and leave State, ChangedState and LocalChangedState (and
\* Enabled) of every service as they were when the named service is not in
\* the table or is not enabled; they return true when it is found and
\* enabled.
C27_SetStateRejects ==
    (Returned("SetState") \/ Returned("SetLocalState")) =>
        /\ ~NamedAndEnabled => (ret = FALSE /\ services = call.services)
        /\ NamedAndEnabled => ret = TRUE
        /\ \A i \in ServiceIds : i # call.name => services[i] = call.services[i]

\* a SetState that would change a bit of a service that is in the table and
\* is not enabled
C27_Witness ==
    /\ Returned("SetState") /\ ret = FALSE
    /\ call.name \in ServiceIds /\ ~call.services[call.name].Enabled
    /\ call.stateBits \cap call.stateMask # {}
    /\ \E i \in ServiceIds : services[i].Enabled
    /\ services = call.services
\* the execution context of a call made in the state s over a store that
\* does not fail
CtxAt(s) ==
    [status |-> s.status, addr |-> s.addr, buf |-> s.buf, mem |-> s.mem,
     n |-> 0, failAt |-> 0, log |-> <<>>, out |-> <<>>, ok |-> TRUE]

\* the backing store a successful Flush issued in the state s leaves
Flushed(s) == FlushCtx(CtxAt(s), FALSE).mem

\* a plain byte array after the assignment of len bytes of data at address
Assigned(m, data, address, len) ==
    [a \in Addresses |->
        IF a >= address /\ a < address + len THEN data[a - address + 1] ELSE m[a]]

\* C28: the cache with its backing store refines a plain byte array. With a
\* store that never fails and no Clear, the array is the store a successful
\* Flush would leave: it starts as the store (the slot is Empty), and every
\* successful SetData changes it exactly as the assignment of its bytes
\* changes a plain array, so that after any sequence of SetData calls and a
\* Flush every byte of the store has the value of the last SetData that
\* covered it, or its initial value.
C28_RefinesByteArray ==
    (Returned("SetData") /\ ret) =>
        Flushed(Snapshot) = Assigned(Flushed(pre), call.data, call.address, call.len)

\* the full-page request that meets the Dirty resident page it covers
C28_StaleBuffer ==
    /\ Returned("SetData") /\ ret
    /\ pre.status = "Dirty"
    /\ call.address <= pre.addr /\ pre.addr + PAGE_SIZE <= call.address + call.len
    /\ m_Status = "Dirty" /\ m_Address = pre.addr
    /\ BufBytes(m_Buffer, 0, PAGE_SIZE) # MemBytes(mem, m_Address, PAGE_SIZE)

\* C29: the pre-flush callback, declared as (buffer, len, address, arg),
\* receives the cache buffer as buffer, PAGE_SIZE in its len parameter and
\* the start address of the resident page in its address parameter. Flush
\* makes the callback right before it writes the buffer to the resident
\* page, so the page and the buffer are those of the Write that follows.
C29_HookArguments ==
    \A i \in 1..Len(log) :
        (pc = "returned" /\ call.op \in {"Flush", "SetData"} /\ log[i].op = "Hook") =>
            /\ i < Len(log)
            /\ log[i + 1].op = "Write" /\ log[i + 1].src = "m_Buffer"
            /\ log[i + 1].len = PAGE_SIZE
            /\ log[i].src = "m_Buffer"
            /\ log[i].data = log[i + 1].data
            /\ log[i].len = PAGE_SIZE
            /\ log[i].address = log[i + 1].address

\* the callback made for the page at address 0: its len parameter is 0 and
\* its address parameter is PAGE_SIZE
C29_SwappedArguments ==
    /\ Returned("Flush") /\ call.cb /\ ret
    /\ pre.status = "Dirty" /\ pre.addr = 0
    /\ Len(log) = 2
    /\ log[1].op = "Hook" /\ log[1].len = 0 /\ log[1].address = PAGE_SIZE
    /\ log[2].op = "Write" /\ log[2].address = 0 /\ log[2].len = PAGE_SIZE

\* the identifiers of the page header at call.address, as the call saw them
IdentifiersMatch ==
    /\ MagicAt(spre.dev, call.address) = PageStorageUUID
    /\ DataIdAt(spre.dev, call.address) = PageUuid

C31_ZeroLengthFrame ==
    (Returned("SetData") /\ call.len = 0) =>
        /\ ret
        /\ log = <<>>
        /\ m_Status = pre.status
        /\ m_Address = pre.addr
        /\ m_Buffer = pre.buf
        /\ mem = pre.mem

\* the zero-length request for a page other than the Dirty resident one:
\* the resident page is written out after the hook, the page of the request
\* is read and becomes the Dirty resident page
C31_ZeroLengthEvicts ==
    /\ Returned("SetData") /\ call.len = 0 /\ call.cb /\ ret
    /\ pre.status = "Dirty" /\ pre.addr # PageStart(call.address)
    /\ Len(log) >= 3
    /\ log[1].op = "Hook" /\ log[2].op = "Write" /\ log[3].op = "Read"
    /\ m_Status = "Dirty" /\ m_Address = PageStart(call.address)

\* C32: every page for which isPageCorrect returns Ok with the metrics
\* checked lies inside its logical object: PageOffset + PageLength <=
\* TotalLength.
C32_PageInsideObject ==
    (Returned("isPageCorrect") /\ ret = "Ok" /\ ~call.options.DontCheckMetrics) =>
        ToNat(PageOffsetAt(spre.dev, call.address))
            + ToNat(PageLengthAt(spre.dev, call.address))
                <= ToNat(TotalLengthAt(spre.dev, call.address))

\* a page found Ok with default options whose PageLength and PageOffset are
\* each within TotalLength and whose end lies beyond it
C32_PageBeyondObject ==
    /\ Returned("isPageCorrect") /\ ret = "Ok" /\ call.options = DefaultOptions
    /\ ToNat(call.pageLen) >= PageHeaderSize
    /\ SizesHold /\ CrcHolds
    /\ ToNat(PageOffsetAt(spre.dev, call.address)) = 1
    /\ ToNat(PageLengthAt(spre.dev, call.address)) = MaxLen
    /\ ToNat(TotalLengthAt(spre.dev, call.address)) = MaxLen

\* a SETUP request of the given code that carries a whole request
Setup(code) ==
    /\ Returned("setupRequest")
    /\ call.len >= RequestSize
    /\ call.request.bRequest = code

\* C33: setupRequest accepts SET_ADDRESS with bmRequestType = 0 in every
\* connection state below ADDRESSED, and then the state is ADDRESSED and
\* DeviceAddress is the low 7 bits of the low byte of wValue; in ADDRESSED
\* and CONFIGURED it returns false with state and DeviceAddress unchanged.
C33_SetAddress ==
    (Setup(SET_ADDRESS) /\ call.request.bmRequestType = 0) =>
        IF call.usb.state < ADDRESSED
        THEN /\ ret
             /\ usb.state = ADDRESSED
             /\ usb.DeviceAddress = call.request.wValue[1] % 128
        ELSE /\ ~ret
             /\ usb.state = call.usb.state
             /\ usb.DeviceAddress = call.usb.DeviceAddress

\* SET_ADDRESS with address 5 (sent as 0x85) accepted in the state ATTACHED
\* that reset() has left: the state is ADDRESSED and DeviceAddress is 0
C33_AddressLost ==
    /\ Setup(SET_ADDRESS) /\ call.request.bmRequestType = 0 /\ ret
    /\ calls = 2
    /\ call.usb.state = ATTACHED
    /\ call.request.wValue[1] = 133
    /\ log = <<[op |-> "stateChanged", from |-> ATTACHED, to |-> ADDRESSED]>>
    /\ usb.state = ADDRESSED
    /\ usb.DeviceAddress = 0

\* the answer bytes a DataPointerStruct hands out
PointedBytes(d) ==
    IF hasData(d)
    THEN [i \in 1..d.len |-> IF d.at + i <= Len(AnswerBytes) THEN AnswerBytes[d.at + i] ELSE 255]
    ELSE <<>>

\* the first n bytes of a sequence and what follows them
FirstBytes(s, n) == [i \in 1..n |-> s[i]]
RestBytes(s, n) == [i \in 1..(Len(s) - n) |-> s[n + i]]

\* C34: while answer bytes remain, controlEPOutgoingData returns true and
\* hands out the next chunk, the first min(remaining, getMaxPacketSize)
\* bytes of what remains, and what remains afterwards is the rest, so that
\* successive calls hand out the L answer bytes in order; once nothing
\* remains it returns false.
C34_ConsecutiveChunks ==
    Returned("controlEPOutgoingData") =>
        IF PointedBytes(call.usb.setupData) # <<>>
        THEN /\ ret
             /\ PointedBytes(call.data)
                  = FirstBytes(PointedBytes(call.usb.setupData),
                         NextPacketSize(call.usb, call.maxPacket))
             /\ PointedBytes(usb.setupData)
                  = RestBytes(PointedBytes(call.usb.setupData),
                         NextPacketSize(call.usb, call.maxPacket))
        ELSE ~ret

\* an answer longer than a packet: the first packet is handed out and no
\* answer byte remains for the next call
C34_AnswerCut ==
    /\ Returned("controlEPOutgoingData") /\ ret
    /\ call.usb.setupData.len > call.maxPacket
    /\ call.data.len = call.maxPacket
    /\ usb.setupData = NullData

\* the value of the request's wValue low byte, and whether the call reaches
\* the virtual setConfiguration and is turned down by it
ConfigurationValue == call.request.wValue[1]
TurnedDown ==
    /\ ~call.v.ok
    /\ ~(call.usb.state = CONFIGURED /\ ConfigurationValue = 0)
StateChange(from, to) == [op |-> "stateChanged", from |-> from, to |-> to]

\* C38: setupRequest rejects SET_CONFIGURATION, with the connection state
\* and Current_Configuration unchanged, when the state is below ADDRESSED or
\* bmRequestType is not 0 or setConfiguration(value) fails; from ADDRESSED an
\* accepted request leads to CONFIGURED with Current_Configuration = value;
\* from CONFIGURED the value 0 leads to ADDRESSED, and an accepted non-zero
\* value leads through ADDRESSED to CONFIGURED again.
C38_SetConfiguration ==
    Setup(SET_CONFIGURATION) =>
        IF \/ call.usb.state < ADDRESSED
           \/ call.request.bmRequestType # 0
           \/ TurnedDown
        THEN /\ ~ret
             /\ log = <<>>
             /\ usb.state = call.usb.state
             /\ usb.Current_Configuration = call.usb.Current_Configuration
        ELSE IF call.usb.state = ADDRESSED
        THEN /\ ret
             /\ log = <<StateChange(ADDRESSED, CONFIGURED)>>
             /\ usb.state = CONFIGURED
             /\ usb.Current_Configuration = ConfigurationValue
        ELSE IF ConfigurationValue = 0
        THEN /\ ret
             /\ log = <<StateChange(CONFIGURED, ADDRESSED)>>
             /\ usb.state = ADDRESSED
        ELSE /\ ret
             /\ log = <<StateChange(CONFIGURED, ADDRESSED), StateChange(ADDRESSED, CONFIGURED)>>
             /\ usb.state = CONFIGURED
             /\ usb.Current_Configuration = ConfigurationValue

\* the device configured by a first request is configured again with
\* another value
C38_Witness ==
    /\ Setup(SET_CONFIGURATION) /\ ret /\ calls = 2
    /\ call.usb.state = CONFIGURED /\ call.usb.Current_Configuration = 1
    /\ call.usb.ActiveSetupRequest.bRequest = SET_CONFIGURATION
    /\ ConfigurationValue = 133
    /\ usb.state = CONFIGURED /\ usb.Current_Configuration = 133
    /\ Len(log) = 2

\* C39: SetState(stateBits, stateMask) on an enabled service changes only
\* the State bits selected by stateMask, for every stateBits, and afterwards
\* ChangedState is its previous value together with exactly the State bits
\* whose value the call changed.
C39_OnlyMaskedBits ==
    (Returned("SetState") /\ ret = TRUE) =>
        /\ services[call.name].State \ call.stateMask
              = call.services[call.name].State \ call.stateMask
        /\ services[call.name].ChangedState
              = call.services[call.name].ChangedState
                  \cup Xor(call.services[call.name].State, services[call.name].State)

\* stateBits with a bit outside stateMask: the bit is set in State and is
\* not recorded in ChangedState
C39_BitOutsideMask ==
    /\ Returned("SetState") /\ ret = TRUE
    /\ call.stateBits = {NumBits - 1} /\ call.stateMask = {0}
    /\ call.services[call.name].State = {}
    /\ call.services[call.name].ChangedState = {}
    /\ services[call.name].State = {NumBits - 1}
    /\ services[call.name].ChangedState = {}

\* the positions in the log of the events of kind op made on behalf of name
EventsOf(op, name) ==
    {n \in DOMAIN log : log[n].op = op /\ log[n].name = name}

\* the StateChanged calls made to the service j on behalf of name
CallsTo(j, name) ==
    {n \in EventsOf("StateChanged", name) : log[n].service = j}

\* C35: no state change is lost. Every bit of an enabled service's
\* ChangedState, also one set by a callback running inside ProcessStates or
\* by an interrupt handler at any point of ProcessStates, has been passed to
\* the StateChanged callback of every other service that defines one when
\* ChangedState is cleared; every local bit set from an interrupt has been
\* seen by a LocalStateChanged call when LocalChangedState is cleared.
C35_NoChangeLost ==
    \A n \in DOMAIN log :
        /\ log[n].op = "Clear" =>
              \A b \in log[n].ChangedState, j \in ServiceIds :
                  (j # log[n].name /\ HasStateChanged(j)) =>
                      \E m \in CallsTo(j, log[n].name) :
                          m < n /\ b \in log[m].ChangedState
        /\ log[n].op = "LocalClear" =>
              \A b \in log[n].stateBits :
                  \E m \in EventsOf("LocalStateChanged", log[n].name) :
                      m < n /\ b \in log[m].stateBits

\* an interrupt sets a bit between the StateChanged calls and the clearing
C35_LostToInterrupt ==
    /\ pc = "round"
    /\ \E n \in DOMAIN log :
          /\ log[n].op = "Clear"
          /\ \E b \in log[n].ChangedState :
                \A m \in EventsOf("StateChanged", log[n].name) : b \notin log[m].ChangedState
          /\ \E m \in 1..(n - 1) : log[m].op = "Irq"

\* the button interrupt arrives between the LocalStateChanged call and the
\* callee's last statement: the Overload bit is cleared unseen
C35_LocalLost ==
    \E n \in DOMAIN log :
        /\ log[n].op = "LocalClear"
        /\ log[n].stateBits = S1 \cup Overload
        /\ \A m \in EventsOf("LocalStateChanged", log[n].name) : log[m].stateBits = S1

\* without an interrupt in the round nothing is lost
UninterruptedRoundLosesNothing == ~Interrupted => C35_NoChangeLost

\* C36: in one ProcessStates round, for each enabled service whose
\* ChangedState is not 0, in table order, the StateChanged callback of every
\* other service that defines one is called with (name, State, ChangedState)
\* before the service's own StateChangedBy callback, and ChangedState is
\* cleared only after both; a service that is disabled or whose ChangedState
\* is 0 causes no StateChanged call and no StateChangedBy call.
C36_RoundOrder ==
    Returned("ProcessStates") =>
        \A i \in ServiceIds :
            \* no call for a disabled service or for one without a change
            /\ \A n \in EventsOf("StateChanged", i) \cup EventsOf("StateChangedBy", i) :
                  /\ call.services[i].Enabled
                  /\ log[n].ChangedState # {}
                  /\ ~Interrupted =>
                        /\ log[n].State = call.services[i].State
                        /\ log[n].ChangedState = call.services[i].ChangedState
            /\ (call.services[i].Enabled /\ call.services[i].ChangedState # {}) =>
                  \* every other service that defines StateChanged, once
                  /\ \A j \in ServiceIds :
                        Cardinality(CallsTo(j, i))
                            = IF j # i /\ HasStateChanged(j) THEN 1 ELSE 0
                  /\ Cardinality(EventsOf("StateChangedBy", i))
                        = IF HasStateChangedBy(i) THEN 1 ELSE 0
                  /\ Cardinality(EventsOf("Clear", i)) = 1
                  \* the others, then the own callback, then the clearing
                  /\ \A n \in EventsOf("StateChanged", i), m \in EventsOf("StateChangedBy", i) :
                        n < m
                  /\ \A n \in EventsOf("StateChanged", i) \cup EventsOf("StateChangedBy", i),
                        m \in EventsOf("Clear", i) : n < m
            \* table order
            /\ \A k \in ServiceIds :
                  \A n \in EventsOf("StateChanged", i) \cup EventsOf("Clear", i),
                     m \in EventsOf("StateChanged", k) \cup EventsOf("Clear", k) :
                      i < k => n < m

\* a round without an interrupt in which two services have a change and the
\* first has its StateChangedBy callback called
C36_Witness ==
    /\ Returned("ProcessStates")
    /\ ~Interrupted
    /\ \A i \in {i \in ServiceIds : HasEnable(i)} :
          call.services[i].Enabled /\ call.services[i].ChangedState # {}
    /\ \E i \in ServiceIds :
          EventsOf("StateChangedBy", i) # {} /\ Cardinality(EventsOf("StateChanged", i)) > 1
    /\ \E i \in ServiceIds : ~HasStateChanged(i) /\ EventsOf("Clear", i) # {}

\* the table entry that the event at the position p of the log examines is
\* enabled and due
Due(p) ==
    log[p].state.Enabled /\ ~Greater(log[p].state.TimeStamp, log[p].time)

\* the callback of the timer examined at the position p is called next
CalledAfter(p) ==
    /\ p + 1 \in DOMAIN log
    /\ log[p + 1].op = "Callback"
    /\ log[p + 1].timer = log[p].timer

\* at the position q of the log the timer t is stopped and has not been
\* started again: by a Stop before the Tick or by one inside a callback
StoppedAt(t, q) ==
    \/ /\ ~call.timers[t].Enabled
       /\ \A s \in 1..(q - 1) : ~(log[s].op = "Start" /\ log[s].timer = t)
    \/ \E s \in 1..(q - 1) :
          /\ log[s].op = "Stop" /\ log[s].timer = t
          /\ \A u \in (s + 1)..(q - 1) : ~(log[u].op = "Start" /\ log[u].timer = t)

\* C37: Tick calls a timer's callback exactly when the timer is Enabled and
\* TimeStamp <= SystemTime at the moment its table entry is examined; the
\* TimeStamp is SystemTime + Interval when the callback is called; a callback
\* is called at most once in a Tick, and never for a timer that was stopped
\* by Stop, also from inside a callback, and not started again.
C37_TickCallbacks ==
    Returned("Tick") =>
        /\ \A p \in DOMAIN log :
              /\ log[p].op = "Examine" =>
                    /\ Due(p) <=> CalledAfter(p)
                    /\ Due(p) => log[p + 1].TimeStamp
                                    = AddUnsigned(call.time, log[p].state.Interval)
              /\ log[p].op = "Callback" =>
                    /\ p > 1 /\ log[p - 1].op = "Examine" /\ log[p - 1].timer = log[p].timer
                    /\ ~StoppedAt(log[p].timer, p)
        /\ \A t \in TimerIds :
              /\ Cardinality({p \in DOMAIN log : log[p].op = "Callback" /\ log[p].timer = t}) <= 1
              /\ Cardinality({p \in DOMAIN log : log[p].op = "Examine" /\ log[p].timer = t}) = 1

\* the callback of the first timer stops the second, which was running and
\* due when Tick was called: the second callback is not called
C37_Witness ==
    /\ Returned("Tick")
    /\ \A t \in TimerIds :
          call.timers[t].Enabled /\ ~Greater(call.timers[t].TimeStamp, call.time)
    /\ call.does[1] = [op |-> "Stop", state |-> NumTimers]
    /\ \E p \in DOMAIN log : log[p].op = "Callback" /\ log[p].timer = 1
    /\ \A p \in DOMAIN log : ~(log[p].op = "Callback" /\ log[p].timer = NumTimers)
    /\ ~timers[NumTimers].Enabled

\* the milliseconds the model lets pass: from WrapStart over the wrap to MaxTime
Span == MaxTime + 2

\* k milliseconds have passed, at the time of the examination at the
\* position p of the log, since the examined timer was started or last
\* called back: T + k = time in 32 bits, where T + Interval = TimeStamp
Elapsed(p, k) ==
    AddUnsigned(log[p].state.TimeStamp, ToBytes(k, UIntSize))
        = AddUnsigned(log[p].time, log[p].state.Interval)

\* the time, the interval and the TimeStamp of the examination at p are
\* below the wrap
Small(b) == \A i \in 2..UIntSize : b[i] = 0
BelowWrap(p) ==
    Small(log[p].time) /\ Small(log[p].state.Interval) /\ Small(log[p].state.TimeStamp)

\* C40: with SystemTime wrapping modulo 2^32, a running timer started at the
\* time T with Start(interval) is not called back by a Tick before interval
\* milliseconds have passed since T, and is called back by the first Tick
\* after they have passed, also when T + interval exceeds 2^32 - 1.
C40_IntervalElapsed ==
    Returned("Tick") =>
        \A p \in DOMAIN log :
            (log[p].op = "Examine" /\ log[p].state.Enabled) =>
                \A k \in 0..Span :
                    Elapsed(p, k) =>
                        (CalledAfter(p) <=> ~Greater(log[p].state.Interval, ToBytes(k, UIntSize)))

\* a timer started two milliseconds before the wrap with the interval 2 is
\* called back by a Tick in the same millisecond
C40_EarlyAtWrap ==
    /\ Returned("Tick")
    /\ call.time = WrapStart
    /\ \E p \in DOMAIN log :
          /\ log[p].op = "Examine" /\ log[p].state.Enabled
          /\ log[p].state.Interval = ToBytes(2, UIntSize)
          /\ log[p].state.TimeStamp = ZeroTime
          /\ CalledAfter(p)

\* a timer that is due before the wrap is not called back by the first Tick
\* after the wrap
C40_LateAfterWrap ==
    /\ Returned("Tick")
    /\ call.time = ZeroTime
    /\ \E p \in DOMAIN log :
          /\ log[p].op = "Examine" /\ log[p].state.Enabled
          /\ log[p].state.Interval = ToBytes(1, UIntSize)
          /\ log[p].state.TimeStamp = UIntMax
          /\ ~CalledAfter(p)

\* below the wrap the timers are called back on time
OnTimeBelowWrap ==
    Returned("Tick") =>
        \A p \in DOMAIN log :
            (log[p].op = "Examine" /\ log[p].state.Enabled /\ BelowWrap(p)) =>
                \A k \in 0..Span :
                    Elapsed(p, k) =>
                        (CalledAfter(p) <=> ~Greater(log[p].state.Interval, ToBytes(k, UIntSize)))

====
